---- MODULE Spec2Model ----
(***************************************************************************)
(* Model of the Lazy C editor extension (src/src/extension.ts): the text   *)
(* heuristics (header inference, prototype synthesis) as pure operators    *)
(* over character sequences, and the event handlers, edits in flight and   *)
(* timers around the process-wide flag isProcessingChange as a state       *)
(* machine.                                                                *)
(*                                                                         *)
(* A line of text is a sequence of one-character strings; a buffer is the  *)
(* sequence of lines that document.getText().split('\n') yields, so a      *)
(* document always has at least one line.                                  *)
(***************************************************************************)
EXTENDS Integers, Sequences, FiniteSets, TLC

(***************************************************************************)
(* Characters and strings                                                  *)
(***************************************************************************)

\* "abc" as <<"a", "b", "c">>
Chars(s) == [i \in 1..Len(s) |-> SubSeq(s, i, i)]

RECURSIVE Str(_)
\* <<"a", "b", "c">> as "abc"
Str(cs) == IF cs = <<>> THEN "" ELSE cs[1] \o Str(Tail(cs))

Letters == "abcdefghijklmnopqrstuvwxyzABCDEFGHIJKLMNOPQRSTUVWXYZ"

Digits == "0123456789"

\* The printable ASCII characters in code order: codes 32 (space) to 95.
PrintableLow == " !\"#$%&'()*+,-./0123456789:;<=>?@ABCDEFGHIJKLMNOPQRSTUVWXYZ[\\]^_"

\* ... and codes 97 to 126.
PrintableHigh == "abcdefghijklmnopqrstuvwxyz{|}~"

CharSet(s) == {SubSeq(s, i, i) : i \in 1..Len(s)}

\* The class [a-zA-Z_] of the regular expressions.
IdentStart == CharSet(Letters) \cup {"_"}

\* The class \w.
WordChars == IdentStart \cup CharSet(Digits)

\* The class \s (the members a text buffer can hold).
SpaceChars == {" ", "\t", "\n", "\r"}

\* The UTF-16 code unit of a character, which orders strings in Array.sort().
CharCode(c) ==
    IF c = "\t" THEN 9
    ELSE IF c = "\n" THEN 10
    ELSE IF c = "\r" THEN 13
    ELSE IF c \in CharSet(PrintableHigh)
    THEN 96 + (CHOOSE i \in 1..Len(PrintableHigh) : SubSeq(PrintableHigh, i, i) = c)
    ELSE 31 + (CHOOSE i \in 1..Len(PrintableLow) : SubSeq(PrintableLow, i, i) = c)

\* a < b as JavaScript compares two strings (by code units, a prefix first).
StrLess(a, b) ==
    \E i \in 1..(Len(b)) :
        /\ i <= Len(a) + 1
        /\ \A k \in 1..(i - 1) : SubSeq(a, k, k) = SubSeq(b, k, k)
        /\ \/ i = Len(a) + 1
           \/ CharCode(SubSeq(a, i, i)) < CharCode(SubSeq(b, i, i))

\* pat occurs in cs at index i.
MatchAt(cs, i, pat) ==
    /\ i >= 1
    /\ i + Len(pat) - 1 <= Len(cs)
    /\ SubSeq(cs, i, i + Len(pat) - 1) = pat

\* String.prototype.indexOf, 1-based; 0 when pat does not occur.
IndexOf(cs, pat) ==
    IF \E i \in 1..Len(cs) : MatchAt(cs, i, pat)
    THEN CHOOSE i \in 1..Len(cs) :
            MatchAt(cs, i, pat) /\ \A k \in 1..(i - 1) : ~MatchAt(cs, k, pat)
    ELSE 0

\* The index after the longest run of \s starting at i (the greedy \s*).
SkipSpace(cs, i) ==
    CHOOSE j \in i..(Len(cs) + 1) :
        /\ \A k \in i..(j - 1) : cs[k] \in SpaceChars
        /\ j = Len(cs) + 1 \/ cs[j] \notin SpaceChars

\* The index after the longest run of \w starting at i (the greedy \w*).
SkipWord(cs, i) ==
    CHOOSE j \in i..(Len(cs) + 1) :
        /\ \A k \in i..(j - 1) : cs[k] \in WordChars
        /\ j = Len(cs) + 1 \/ cs[j] \notin WordChars

\* String.prototype.trim
Trim(cs) ==
    LET a == SkipSpace(cs, 1)
        b == IF a > Len(cs) THEN a - 1
             ELSE CHOOSE j \in a..Len(cs) :
                     /\ cs[j] \notin SpaceChars
                     /\ \A k \in (j + 1)..Len(cs) : cs[k] \in SpaceChars
    IN  SubSeq(cs, a, b)

\* String.prototype.startsWith
StartsWith(cs, pat) == MatchAt(cs, 1, pat)

(***************************************************************************)
(* Catalogs                                                                *)
(***************************************************************************)

\* Library function name -> required header (the own properties of the object).
FUNCTION_TO_HEADER ==
    [ printf |-> "stdio.h", scanf |-> "stdio.h", fprintf |-> "stdio.h",
      fscanf |-> "stdio.h", fopen |-> "stdio.h", fclose |-> "stdio.h",
      fgets |-> "stdio.h", fputs |-> "stdio.h", fread |-> "stdio.h",
      fwrite |-> "stdio.h", sprintf |-> "stdio.h", sscanf |-> "stdio.h",
      puts |-> "stdio.h", getchar |-> "stdio.h", putchar |-> "stdio.h",
      perror |-> "stdio.h", fgetc |-> "stdio.h", fputc |-> "stdio.h",
      fseek |-> "stdio.h", ftell |-> "stdio.h", malloc |-> "stdlib.h",
      calloc |-> "stdlib.h", realloc |-> "stdlib.h", free |-> "stdlib.h",
      exit |-> "stdlib.h", atoi |-> "stdlib.h", atof |-> "stdlib.h",
      rand |-> "stdlib.h", srand |-> "stdlib.h", abs |-> "stdlib.h",
      system |-> "stdlib.h", getenv |-> "stdlib.h", strcpy |-> "string.h",
      strncpy |-> "string.h", strcat |-> "string.h", strncat |-> "string.h",
      strlen |-> "string.h", strcmp |-> "string.h", strncmp |-> "string.h",
      strchr |-> "string.h", strstr |-> "string.h", memcpy |-> "string.h",
      memset |-> "string.h", memmove |-> "string.h", memcmp |-> "string.h",
      strdup |-> "string.h", sqrt |-> "math.h", pow |-> "math.h",
      sin |-> "math.h", cos |-> "math.h", tan |-> "math.h",
      floor |-> "math.h", ceil |-> "math.h", fabs |-> "math.h",
      exp |-> "math.h", log |-> "math.h", round |-> "math.h",
      fmod |-> "math.h", time |-> "time.h", clock |-> "time.h",
      difftime |-> "time.h", strftime |-> "time.h", isalpha |-> "ctype.h",
      isdigit |-> "ctype.h", isalnum |-> "ctype.h", toupper |-> "ctype.h",
      tolower |-> "ctype.h", isspace |-> "ctype.h", ispunct |-> "ctype.h",
      isupper |-> "ctype.h", islower |-> "ctype.h" ]

\* Unsafe function -> safer alternative.
UNSAFE_FUNCTIONS ==
    [ gets |-> "fgets", strcpy |-> "strncpy", strcat |-> "strncat",
      sprintf |-> "snprintf" ]

\* What every JavaScript object literal inherits from Object.prototype: the
\* function-valued members, each with the text its conversion to a string gives.
ObjectPrototype ==
    [ constructor |-> "function Object() { [native code] }",
      hasOwnProperty |-> "function hasOwnProperty() { [native code] }",
      isPrototypeOf |-> "function isPrototypeOf() { [native code] }",
      propertyIsEnumerable |-> "function propertyIsEnumerable() { [native code] }",
      toLocaleString |-> "function toLocaleString() { [native code] }",
      toString |-> "function toString() { [native code] }",
      valueOf |-> "function valueOf() { [native code] }" ]

\* A JavaScript value: a string, a function object (with its string conversion)
\* or undefined.
JsString(s) == [kind |-> "string", text |-> s]

JsFunction(s) == [kind |-> "function", text |-> s]

JsUndefined == [kind |-> "undefined", text |-> "undefined"]

\* FUNCTION_TO_HEADER[functionName]: a property read, which finds own keys first
\* and then the members inherited from Object.prototype.
HeaderLookup(functionName) ==
    IF functionName \in DOMAIN FUNCTION_TO_HEADER
    THEN JsString(FUNCTION_TO_HEADER[functionName])
    ELSE IF functionName \in DOMAIN ObjectPrototype
    THEN JsFunction(ObjectPrototype[functionName])
    ELSE JsUndefined

(***************************************************************************)
(* The host's text buffer                                                  *)
(***************************************************************************)

\* editBuilder.insert(new Position(line, column), text) as the editor applies
\* it. text is given split at its line breaks. A position past the last line
\* is moved to the end of the last line, a column past the end of its line to
\* the end of that line (the editor validates positions, it does not pad).
InsertText(lines, line, column, text) ==
    LET l == IF line >= Len(lines) THEN Len(lines) - 1 ELSE line
        cur == lines[l + 1]
        c == IF line >= Len(lines) \/ column > Len(cur) THEN Len(cur) ELSE column
        pre == SubSeq(cur, 1, c)
        post == SubSeq(cur, c + 1, Len(cur))
        n == Len(text)
        mid == IF n = 1
               THEN << pre \o text[1] \o post >>
               ELSE << pre \o text[1] >> \o SubSeq(text, 2, n - 1) \o << text[n] \o post >>
    IN  SubSeq(lines, 1, l) \o mid \o SubSeq(lines, l + 2, Len(lines))

(***************************************************************************)
(* Header inference (autoAddRequiredHeaders)                               *)
(***************************************************************************)

\* /#include\s*[<"](.+?)[>"]/ matches line with the match starting at index i.
IncludeMatchesAt(line, i) ==
    /\ MatchAt(line, i, Chars("#include"))
    /\ LET d == SkipSpace(line, i + 8)
       IN  /\ d <= Len(line)
           /\ line[d] \in {"<", "\""}
           /\ \E e \in (d + 2)..Len(line) : line[e] \in {">", "\""}

\* line.match(/#include\s*[<"](.+?)[>"]/): << match[1] >> for the leftmost
\* match (the lazy capture ends at the first closing character that leaves it
\* non-empty), << >> when the line does not match.
IncludeMatch(line) ==
    IF \E i \in 1..Len(line) : IncludeMatchesAt(line, i)
    THEN LET i == CHOOSE i \in 1..Len(line) :
                    /\ IncludeMatchesAt(line, i)
                    /\ \A k \in 1..(i - 1) : ~IncludeMatchesAt(line, k)
             d == SkipSpace(line, i + 8)
             e == CHOOSE e \in (d + 2)..Len(line) :
                    /\ line[e] \in {">", "\""}
                    /\ \A k \in (d + 2)..(e - 1) : line[k] \notin {">", "\""}
         IN  << Str(SubSeq(line, d + 1, e - 1)) >>
    ELSE << >>

\* The headers the buffer already includes.
IncludedHeaders(lines) ==
    {IncludeMatch(lines[n])[1] : n \in {n \in 1..Len(lines) : IncludeMatch(lines[n]) # << >>}}

\* The part of a line the call scan reads: the text before the first "//".
CheckLine(line) ==
    LET commentIndex == IndexOf(line, Chars("//"))
    IN  IF commentIndex # 0 THEN SubSeq(line, 1, commentIndex - 1) ELSE line

\* /\b([a-zA-Z_]\w*)\s*\(/ matches cs with the match starting at index i.
CallMatchesAt(cs, i) ==
    /\ i \in 1..Len(cs)
    /\ cs[i] \in IdentStart
    /\ i = 1 \/ cs[i - 1] \notin WordChars
    /\ LET p == SkipSpace(cs, SkipWord(cs, i))
       IN  p <= Len(cs) /\ cs[p] = "("

\* The names match[1] of all matches of the global scan of one line.
CalledNames(cs) ==
    {Str(SubSeq(cs, i, SkipWord(cs, i) - 1)) : i \in {i \in 1..Len(cs) : CallMatchesAt(cs, i)}}

\* The Set requiredHeaders after the scan of all lines.
RequiredHeaders(lines) ==
    LET includedHeaders == IncludedHeaders(lines)
        names == UNION {CalledNames(CheckLine(lines[n])) : n \in 1..Len(lines)}
    IN  {h \in {HeaderLookup(name) : name \in names} :
            /\ h.kind # "undefined"
            /\ ~(h.kind = "string" /\ h.text \in includedHeaders)}

\* lines[i].trim().startsWith('#include')
IsIncludeLine(line) == StartsWith(Trim(line), Chars("#include"))

\* The 0-based line of the insertion: one past the last #include line, else 0.
InsertionLine(lines) ==
    IF \E n \in 1..Len(lines) : IsIncludeLine(lines[n])
    THEN CHOOSE n \in 1..Len(lines) :
            /\ IsIncludeLine(lines[n])
            /\ \A k \in (n + 1)..Len(lines) : ~IsIncludeLine(lines[k])
    ELSE 0

RECURSIVE SortTexts(_)
\* Array.from(set).sort(): the string conversions in code-unit order.
SortTexts(S) ==
    IF S = {} THEN << >>
    ELSE LET m == CHOOSE m \in S : \A o \in S \ {m} : StrLess(m, o)
         IN  << m >> \o SortTexts(S \ {m})

\* headersToAdd
HeadersToAdd(lines) == SortTexts({h.text : h \in RequiredHeaders(lines)})

\* headerText with a blank line after the block.
HeaderTextThenBlankLine(lines) ==
    LET hs == HeadersToAdd(lines)
    IN  [k \in 1..Len(hs) |-> Chars("#include <" \o hs[k] \o ">")] \o << << >>, << >> >>

\* headerText, split at its line breaks: one #include line per header and the
\* empty remainder after the final line break.
HeaderText(lines) ==
    LET hs == HeadersToAdd(lines)
    IN  [k \in 1..Len(hs) |-> Chars("#include <" \o hs[k] \o ">")] \o << << >> >>

\* The buffer after the edit of a header pass computed from lines is applied to
\* lines itself (no edit when nothing is required).
AfterHeaderPass(lines) ==
    IF RequiredHeaders(lines) = {} THEN lines
    ELSE InsertText(lines, InsertionLine(lines), 0, HeaderText(lines))

(***************************************************************************)
(* Prototype synthesis (autoGeneratePrototypes)                            *)
(***************************************************************************)

\* The 0-based line of the last #include directive, -1 when there is none.
LastIncludeLine(lines) ==
    IF \E n \in 1..Len(lines) : IsIncludeLine(lines[n])
    THEN (CHOOSE n \in 1..Len(lines) :
            /\ IsIncludeLine(lines[n])
            /\ \A k \in (n + 1)..Len(lines) : ~IsIncludeLine(lines[k])) - 1
    ELSE -1

\* /^\s*(int|void)\s+main\s*\(/.test(line)
IsMainLine(line) ==
    LET a == SkipSpace(line, 1)
    IN  \E kw \in {Chars("int"), Chars("void")} :
            /\ MatchAt(line, a, kw)
            /\ LET b == a + Len(kw)
                   c == SkipSpace(line, b)
                   d == SkipSpace(line, c + 4)
               IN  /\ c > b
                   /\ MatchAt(line, c, Chars("main"))
                   /\ d <= Len(line)
                   /\ line[d] = "("

\* The 0-based line of the first main definition after the last include, -1
\* when there is none.
MainLine(lines, lastIncludeLine) ==
    IF \E n \in (lastIncludeLine + 2)..Len(lines) : IsMainLine(lines[n])
    THEN (CHOOSE n \in (lastIncludeLine + 2)..Len(lines) :
            /\ IsMainLine(lines[n])
            /\ \A k \in (lastIncludeLine + 2)..(n - 1) : ~IsMainLine(lines[k])) - 1
    ELSE -1

\* The return-type alternatives of functionPattern.
ReturnTypes ==
    {Chars("int"), Chars("void"), Chars("char"), Chars("float"), Chars("double"),
     Chars("long"), Chars("short"), Chars("unsigned"), Chars("signed")}

\* The index of the first ")" of cs at or after index i, 0 when there is none.
ClosingParen(cs, i) ==
    IF \E f \in i..Len(cs) : cs[f] = ")"
    THEN CHOOSE f \in i..Len(cs) : cs[f] = ")" /\ \A k \in i..(f - 1) : cs[k] # ")"
    ELSE 0

\* line.match(functionPattern) for
\* /^\s*(int|void|...|signed)\s+([a-zA-Z_]\w*)\s*\(([^)]*)\)\s*\{/:
\* << [name, prototype] >> built from the groups of the match, << >> when the
\* line does not match.
FunctionMatch(line) ==
    LET a == SkipSpace(line, 1)
        kws == {kw \in ReturnTypes : MatchAt(line, a, kw)}
    IN  IF kws = {} THEN << >>
        ELSE LET kw == CHOOSE kw \in kws : TRUE
                 b == a + Len(kw)
                 c == SkipSpace(line, b)
                 d == SkipWord(line, c)
                 e == SkipSpace(line, d)
                 f == ClosingParen(line, e + 1)
                 g == SkipSpace(line, f + 1)
             IN  IF /\ c > b
                    /\ c <= Len(line)
                    /\ line[c] \in IdentStart
                    /\ e <= Len(line)
                    /\ line[e] = "("
                    /\ f # 0
                    /\ g <= Len(line)
                    /\ line[g] = "{"
                 THEN << [name |-> SubSeq(line, c, d - 1),
                          prototype |-> kw \o << " " >> \o SubSeq(line, c, d - 1) \o << "(" >>
                                        \o Trim(SubSeq(line, e + 1, f - 1)) \o Chars(");")] >>
                 ELSE << >>

RECURSIVE FoundFunctionsFrom(_, _)
\* foundFunctions as the loop from 1-based line n on builds it: one entry per
\* matching line whose function is not named main, in line order.
FoundFunctionsFrom(lines, n) ==
    IF n > Len(lines) THEN << >>
    ELSE LET m == FunctionMatch(lines[n])
         IN  (IF m # << >> /\ m[1].name # Chars("main") THEN m ELSE << >>)
             \o FoundFunctionsFrom(lines, n + 1)

\* foundFunctions when the loop scans the whole buffer.
FoundFunctionsWholeBuffer(lines, mainLine) == FoundFunctionsFrom(lines, 1)

\* foundFunctions when the loop starts after the last include instead of after
\* main.
FoundFunctionsAfterInclude(lines, mainLine) ==
    FoundFunctionsFrom(lines, LastIncludeLine(lines) + 2)

\* foundFunctions for a main definition on 0-based line mainLine.
FoundFunctions(lines, mainLine) == FoundFunctionsFrom(lines, mainLine + 2)

RECURSIVE Join(_)
\* lines.join('\n')
Join(lines) ==
    IF lines = << >> THEN << >>
    ELSE IF Len(lines) = 1 THEN lines[1]
    ELSE lines[1] \o << "\n" >> \o Join(Tail(lines))

\* lines.slice(lastIncludeLine + 1, mainLine).join('\n')
PrototypeArea(lines, lastIncludeLine, mainLine) ==
    Join(SubSeq(lines, lastIncludeLine + 2, mainLine))

\* new RegExp(`\\b${name}\\s*\\([^)]*\\)\\s*;`).test(area)
IsDeclared(name, area) ==
    \E i \in 1..Len(area) :
        /\ MatchAt(area, i, name)
        /\ i = 1 \/ area[i - 1] \notin WordChars
        /\ LET p == SkipSpace(area, i + Len(name))
               q == ClosingParen(area, p + 1)
               r == SkipSpace(area, q + 1)
           IN  /\ p <= Len(area)
               /\ area[p] = "("
               /\ q # 0
               /\ r <= Len(area)
               /\ area[r] = ";"

RECURSIVE Filter(_, _)
\* funcs.filter(func => !pattern.test(prototypeArea))
Filter(funcs, area) ==
    IF funcs = << >> THEN << >>
    ELSE (IF IsDeclared(funcs[1].name, area) THEN << >> ELSE << funcs[1] >>)
         \o Filter(Tail(funcs), area)

\* missingPrototypes, << >> also when the pass returns before computing it
\* (no include, no main after it, no function found).
MissingPrototypes(lines) ==
    LET lastIncludeLine == LastIncludeLine(lines)
        mainLine == MainLine(lines, lastIncludeLine)
    IN  IF lastIncludeLine = -1 \/ mainLine = -1 THEN << >>
        ELSE Filter(FoundFunctions(lines, mainLine),
                    PrototypeArea(lines, lastIncludeLine, mainLine))

\* prototypesText with a blank line after the block.
PrototypesTextThenBlankLine(missing) ==
    << << >> >> \o [k \in 1..Len(missing) |-> missing[k].prototype] \o << << >>, << >> >>

\* prototypesText, split at its line breaks: the empty text before the leading
\* line break, the prototypes, the empty text after the final line break.
PrototypesText(missing) ==
    << << >> >> \o [k \in 1..Len(missing) |-> missing[k].prototype] \o << << >> >>

\* The buffer after the edit of a prototype pass computed from lines is applied
\* to lines itself (no edit when nothing is missing).
AfterPrototypePass(lines) ==
    LET missing == MissingPrototypes(lines)
    IN  IF missing = << >> THEN lines
        ELSE InsertText(lines, LastIncludeLine(lines) + 1, 0, PrototypesText(missing))

(***************************************************************************)
(* Semicolon heuristic (shouldAddSemicolon)                                *)
(***************************************************************************)

\* String.prototype.trimEnd
TrimEnd(cs) ==
    IF \A k \in 1..Len(cs) : cs[k] \in SpaceChars THEN << >>
    ELSE SubSeq(cs, 1, CHOOSE j \in 1..Len(cs) :
                          /\ cs[j] \notin SpaceChars
                          /\ \A k \in (j + 1)..Len(cs) : cs[k] \in SpaceChars)

\* String.prototype.endsWith
EndsWith(cs, pat) == MatchAt(cs, Len(cs) - Len(pat) + 1, pat)

\* The keywords of the control-structure pattern.
ControlKeywords ==
    {Chars("if"), Chars("else if"), Chars("else"), Chars("while"), Chars("for"),
     Chars("do"), Chars("switch")}

\* /^\s*(if|else if|else|while|for|do|switch)\s*\(.*\)\s*$/.test(trimmed)
IsControlLine(trimmed) ==
    \E kw \in ControlKeywords :
        /\ MatchAt(trimmed, 1, kw)
        /\ LET p == SkipSpace(trimmed, Len(kw) + 1)
           IN  /\ p < Len(trimmed)
               /\ trimmed[p] = "("
               /\ trimmed[Len(trimmed)] = ")"

\* The keywords of the function-definition pattern.
DefinitionKeywords ==
    ReturnTypes \cup {Chars("static"), Chars("const"), Chars("auto"), Chars("register")}

\* /^\s*(int|...|register)\s+[\w\s\*]+\([^)]*\)\s*$/.test(trimmed)
IsFunctionHeader(trimmed) ==
    \E kw \in DefinitionKeywords :
        /\ MatchAt(trimmed, 1, kw)
        /\ LET b == Len(kw) + 1
               e == CHOOSE j \in b..(Len(trimmed) + 1) :
                       /\ \A k \in b..(j - 1) : trimmed[k] \in WordChars \cup SpaceChars \cup {"*"}
                       /\ j = Len(trimmed) + 1 \/ trimmed[j] \notin WordChars \cup SpaceChars \cup {"*"}
           IN  /\ b <= Len(trimmed)
               /\ trimmed[b] \in SpaceChars
               /\ e - b >= 2
               /\ e <= Len(trimmed)
               /\ trimmed[e] = "("
               /\ ClosingParen(trimmed, e + 1) = Len(trimmed)

\* /^\s*(struct|union|enum|typedef)\b/.test(trimmed)
IsTypeDeclaration(trimmed) ==
    \E kw \in {Chars("struct"), Chars("union"), Chars("enum"), Chars("typedef")} :
        /\ MatchAt(trimmed, 1, kw)
        /\ Len(trimmed) = Len(kw) \/ trimmed[Len(kw) + 1] \notin WordChars

\* /^\s*(case\s+.+|default)\s*:\s*$/.test(trimmed)
IsCaseLabel(trimmed) ==
    /\ trimmed # << >>
    /\ trimmed[Len(trimmed)] = ":"
    /\ LET body == TrimEnd(SubSeq(trimmed, 1, Len(trimmed) - 1))
       IN  \/ body = Chars("default")
           \/ /\ MatchAt(body, 1, Chars("case"))
              /\ Len(body) >= 6
              /\ body[5] \in SpaceChars

\* shouldAddSemicolon without its test for a final "{", ":" or "[".
shouldAddSemicolonWithoutOpeners(text) ==
    LET trimmed == Trim(text)
    IN  IF trimmed = << >> \/ EndsWith(trimmed, << ";" >>) THEN FALSE
        ELSE IF trimmed = << "}" >> THEN FALSE
        ELSE IF trimmed[1] = "#" THEN FALSE
        ELSE IF \/ StartsWith(trimmed, Chars("//"))
                \/ StartsWith(trimmed, Chars("/*"))
                \/ EndsWith(trimmed, Chars("*/"))
                \/ StartsWith(trimmed, Chars("*")) THEN FALSE
        ELSE IF IsControlLine(trimmed) THEN FALSE
        ELSE IF IsFunctionHeader(trimmed) THEN FALSE
        ELSE IF IsTypeDeclaration(trimmed) THEN FALSE
        ELSE TRUE

\* shouldAddSemicolon(text): the rules in the order of the code.
shouldAddSemicolon(text) ==
    LET trimmed == Trim(text)
    IN  IF trimmed = << >> \/ EndsWith(trimmed, << ";" >>) THEN FALSE
        ELSE IF trimmed[Len(trimmed)] \in {"{", ":", "["} THEN FALSE
        ELSE IF trimmed = << "}" >> THEN FALSE
        ELSE IF trimmed[1] = "#" THEN FALSE
        ELSE IF \/ StartsWith(trimmed, Chars("//"))
                \/ StartsWith(trimmed, Chars("/*"))
                \/ EndsWith(trimmed, Chars("*/"))
                \/ StartsWith(trimmed, Chars("*")) THEN FALSE
        ELSE IF IsControlLine(trimmed) THEN FALSE
        ELSE IF IsFunctionHeader(trimmed) THEN FALSE
        ELSE IF IsTypeDeclaration(trimmed) THEN FALSE
        ELSE IF IsCaseLabel(trimmed) THEN FALSE
        ELSE TRUE

(***************************************************************************)
(* Reference search                                                        *)
(***************************************************************************)

\* Object.values(LIBRARY_DATABASE): the name, header and description of every
\* entry, in declaration order.
LIBRARY_DATABASE ==
    <<
       [name |-> "printf", header |-> "stdio.h",
        description |-> "Prints formatted output to stdout"],
       [name |-> "scanf", header |-> "stdio.h",
        description |-> "Reads formatted input from stdin"],
       [name |-> "fprintf", header |-> "stdio.h",
        description |-> "Prints formatted output to a file stream"],
       [name |-> "sprintf", header |-> "stdio.h",
        description |-> "Prints formatted output to a string buffer"],
       [name |-> "fgets", header |-> "stdio.h",
        description |-> "Reads a line from a file stream into a buffer"],
       [name |-> "fputs", header |-> "stdio.h",
        description |-> "Writes a string to a file stream"],
       [name |-> "fread", header |-> "stdio.h",
        description |-> "Reads binary data from a file stream"],
       [name |-> "fwrite", header |-> "stdio.h",
        description |-> "Writes binary data to a file stream"],
       [name |-> "malloc", header |-> "stdlib.h",
        description |-> "Allocates memory dynamically on the heap"],
       [name |-> "calloc", header |-> "stdlib.h",
        description |-> "Allocates memory and initializes it to zero"],
       [name |-> "realloc", header |-> "stdlib.h",
        description |-> "Changes the size of previously allocated memory"],
       [name |-> "free", header |-> "stdlib.h",
        description |-> "Frees dynamically allocated memory"],
       [name |-> "strlen", header |-> "string.h",
        description |-> "Returns the length of a string (excluding null terminator)"],
       [name |-> "strcmp", header |-> "string.h",
        description |-> "Compares two strings lexicographically"],
       [name |-> "strncmp", header |-> "string.h",
        description |-> "Compares first n characters of two strings"],
       [name |-> "strcpy", header |-> "string.h",
        description |-> "Copies a string from source to destination"],
       [name |-> "strncpy", header |-> "string.h",
        description |-> "Safely copies up to n characters from source to destination"],
       [name |-> "strcat", header |-> "string.h",
        description |-> "Concatenates two strings"],
       [name |-> "strncat", header |-> "string.h",
        description |-> "Safely concatenates up to n characters"],
       [name |-> "strchr", header |-> "string.h",
        description |-> "Finds the first occurrence of a character in a string"],
       [name |-> "strstr", header |-> "string.h",
        description |-> "Finds the first occurrence of a substring in a string"],
       [name |-> "atoi", header |-> "stdlib.h",
        description |-> "Converts a string to an integer"],
       [name |-> "atof", header |-> "stdlib.h",
        description |-> "Converts a string to a floating point number"],
       [name |-> "fopen", header |-> "stdio.h",
        description |-> "Opens a file and returns a FILE pointer"],
       [name |-> "fclose", header |-> "stdio.h",
        description |-> "Closes a file stream"],
       [name |-> "abs", header |-> "stdlib.h",
        description |-> "Returns the absolute value of an integer"],
       [name |-> "sqrt", header |-> "math.h",
        description |-> "Calculates the square root"],
       [name |-> "pow", header |-> "math.h",
        description |-> "Calculates x raised to the power of y"],
       [name |-> "ceil", header |-> "math.h",
        description |-> "Rounds up to the nearest integer"],
       [name |-> "floor", header |-> "math.h",
        description |-> "Rounds down to the nearest integer"],
       [name |-> "round", header |-> "math.h",
        description |-> "Rounds to the nearest integer"],
       [name |-> "isdigit", header |-> "ctype.h",
        description |-> "Checks if a character is a digit (0-9)"],
       [name |-> "isalpha", header |-> "ctype.h",
        description |-> "Checks if a character is alphabetic (a-z, A-Z)"],
       [name |-> "isalnum", header |-> "ctype.h",
        description |-> "Checks if a character is alphanumeric"],
       [name |-> "isspace", header |-> "ctype.h",
        description |-> "Checks if a character is whitespace"],
       [name |-> "toupper", header |-> "ctype.h",
        description |-> "Converts a character to uppercase"],
       [name |-> "tolower", header |-> "ctype.h",
        description |-> "Converts a character to lowercase"],
       [name |-> "memcpy", header |-> "string.h",
        description |-> "Copies n bytes from source to destination"],
       [name |-> "memset", header |-> "string.h",
        description |-> "Sets n bytes of memory to a value"],
       [name |-> "time", header |-> "time.h",
        description |-> "Gets the current calendar time"],
       [name |-> "rand", header |-> "stdlib.h",
        description |-> "Generates a pseudo-random number"],
       [name |-> "srand", header |-> "stdlib.h",
        description |-> "Seeds the random number generator"],
       [name |-> "exit", header |-> "stdlib.h",
        description |-> "Terminates the program"],
       [name |-> "getchar", header |-> "stdio.h",
        description |-> "Reads a single character from stdin"],
       [name |-> "putchar", header |-> "stdio.h",
        description |-> "Writes a single character to stdout"],
       [name |-> "perror", header |-> "stdio.h",
        description |-> "Prints error message based on errno"]
    >>

Lower == "abcdefghijklmnopqrstuvwxyz"

Upper == "ABCDEFGHIJKLMNOPQRSTUVWXYZ"

\* String.prototype.toLowerCase
toLowerCase(cs) ==
    [i \in 1..Len(cs) |->
        IF cs[i] \in CharSet(Upper)
        THEN LET k == CHOOSE k \in 1..Len(Upper) : SubSeq(Upper, k, k) = cs[i]
             IN  SubSeq(Lower, k, k)
        ELSE cs[i]]

\* String.prototype.includes
Includes(cs, pat) ==
    pat = << >> \/ \E i \in 1..(Len(cs) - Len(pat) + 1) : MatchAt(cs, i, pat)

\* The entries of LIBRARY_DATABASE with what name.toLowerCase(),
\* header.toLowerCase() and description.toLowerCase() yield for them.
LowerCased ==
    [i \in 1..Len(LIBRARY_DATABASE) |->
        [name |-> LIBRARY_DATABASE[i].name,
         lowerName |-> toLowerCase(Chars(LIBRARY_DATABASE[i].name)),
         lowerHeader |-> toLowerCase(Chars(LIBRARY_DATABASE[i].header)),
         lowerDescription |-> toLowerCase(Chars(LIBRARY_DATABASE[i].description))]]

\* The results of a filter as the names of the entries it kept.
Names(found) == [i \in 1..Len(found) |-> found[i].name]

\* The filter of searchReference: the name alone.
NameMatch(func, searchTerm) == Includes(func.lowerName, searchTerm)

\* The filter of _handleWebviewMessage without its test of the header.
SidebarMatchNameOnly(func, searchTerm) == Includes(func.lowerName, searchTerm)

\* The filter of _handleWebviewMessage: the name, or the header with the term
\* as it is or with ".h" appended.
SidebarMatch(func, searchTerm) ==
    \/ Includes(func.lowerName, searchTerm)
    \/ LET headerTerm == IF EndsWith(searchTerm, Chars(".h")) THEN searchTerm
                         ELSE searchTerm \o Chars(".h")
       IN  \/ Includes(func.lowerHeader, headerTerm)
           \/ Includes(func.lowerHeader, searchTerm)

\* The filter of handleSearchMessage: name, description or header.
PanelMatch(func, query) ==
    \/ Includes(func.lowerName, query)
    \/ Includes(func.lowerDescription, query)
    \/ Includes(func.lowerHeader, query)

\* What a search leaves behind: the entry point, the text the user entered, the
\* outcome ("prompt": the view asks for a term; "searchResults": a response
\* with results was posted to the view; "information": the no-match message;
\* "ignored": nothing happens) and whether referencePanel is defined.
Searched(from, input, outcome, results, panel) ==
    [from |-> from, input |-> input, outcome |-> outcome, results |-> results,
     panel |-> panel]

\* performSearch of a view's script without the test for an empty query.
performSearchUnguarded(input) == [posted |-> TRUE, query |-> Trim(Chars(input))]

\* performSearch of a view's script: the message it posts, if any.
performSearch(input) ==
    IF Len(Trim(Chars(input))) = 0 THEN [posted |-> FALSE, query |-> << >>]
    ELSE [posted |-> TRUE, query |-> Trim(Chars(input))]

\* LibraryReferenceViewProvider._handleWebviewMessage for
\* {command: 'search', query}: the results it posts.
handleWebviewMessage(query) ==
    LET searchTerm == Trim(toLowerCase(query))
    IN  Names(SelectSeq(LowerCased, LAMBDA func : SidebarMatch(func, searchTerm)))

\* handleSearchMessage for {command: 'search', query}: << results >> when it
\* posts a response, << >> when it returns without one.
handleSearchMessage(query, panel) ==
    IF query = << >> THEN << >>
    ELSE LET q == Trim(toLowerCase(query))
         IN  IF q = << >> THEN << >>
             ELSE IF panel THEN << Names(SelectSeq(LowerCased, LAMBDA func : PanelMatch(func, q))) >>
             ELSE << >>

\* searchReference(query, context): the results of its filter.
searchReference(query) ==
    Names(SelectSeq(LowerCased, LAMBDA func : NameMatch(func, toLowerCase(query))))

(***************************************************************************)
(* Diagnostics                                                             *)
(***************************************************************************)

\* new vscode.Diagnostic(new vscode.Range(line, start, line, end), message,
\* severity), columns 0-based.
Diagnostic(line, start, end, severity, message) ==
    [line |-> line, start |-> start, end |-> end, severity |-> severity,
     message |-> message]

\* Object.entries(UNSAFE_FUNCTIONS): the unsafe names in declaration order.
UnsafeEntries == << "gets", "strcpy", "strcat", "sprintf" >>

\* The message of the unsafe-function Warning.
UnsafeMessage(unsafeFunc) ==
    "Unsafe function '" \o unsafeFunc \o "'. Consider using '"
        \o UNSAFE_FUNCTIONS[unsafeFunc] \o "' instead."

\* The substring of line up to its first "//" (the whole line without one).
StripComment(line) ==
    IF IndexOf(line, Chars("//")) # 0
    THEN SubSeq(line, 1, IndexOf(line, Chars("//")) - 1)
    ELSE line

RECURSIVE UnsafeLoop(_, _, _)
\* The loop over Object.entries(UNSAFE_FUNCTIONS) from entry k on.
UnsafeLoop(line, lineNumber, k) ==
    IF k > Len(UnsafeEntries) THEN << >>
    ELSE LET unsafeFunc == UnsafeEntries[k]
             commentIndex == IndexOf(line, Chars("//"))
             funcIndex == IndexOf(line, Chars(unsafeFunc))
         IN  (IF /\ IndexOf(line, Chars(unsafeFunc \o "(")) # 0
                 /\ ~(commentIndex # 0 /\ funcIndex > commentIndex)
              THEN << Diagnostic(lineNumber, funcIndex - 1,
                                 funcIndex - 1 + Len(Chars(unsafeFunc)), "Warning",
                                 UnsafeMessage(unsafeFunc)) >>
              ELSE << >>)
             \o UnsafeLoop(line, lineNumber, k + 1)

\* checkUnsafeFunctions(line, lineNumber, diagnostics): what it pushes.
checkUnsafeFunctions(line, lineNumber) ==
    IF \/ StartsWith(Trim(line), Chars("//"))
       \/ StartsWith(Trim(line), Chars("/*"))
       \/ StartsWith(Trim(line), Chars("*"))
    THEN << >>
    ELSE UnsafeLoop(line, lineNumber, 1)

\* /if\s*\([^)]*[^=!<>]=(?!=)[^)]*\)/.test(checkLine)
AssignmentPattern(cl) ==
    \E i \in 1..Len(cl) :
        /\ MatchAt(cl, i, Chars("if"))
        /\ LET p == SkipSpace(cl, i + 2)
               q == ClosingParen(cl, p + 1)
           IN  /\ p <= Len(cl)
               /\ cl[p] = "("
               /\ q # 0
               /\ \E k \in (p + 2)..(q - 1) :
                     /\ cl[k] = "="
                     /\ cl[k - 1] \notin {"=", "!", "<", ">"}
                     /\ cl[k + 1] # "="

\* checkAssignmentInConditional(line, lineNumber, diagnostics): what it pushes.
checkAssignmentInConditional(line, lineNumber) ==
    LET checkLine == StripComment(line)
    IN  IF AssignmentPattern(checkLine)
        THEN << Diagnostic(lineNumber, IndexOf(checkLine, Chars("if")) - 1, Len(checkLine),
                           "Warning",
                           "Possible assignment instead of comparison in conditional statement") >>
        ELSE << >>

AllocationNames == {Chars("malloc"), Chars("calloc"), Chars("realloc")}

\* The indexes where /\b(malloc|calloc|realloc)/ matches cl.
AllocationMatches(cl) ==
    {i \in 1..Len(cl) :
        /\ i = 1 \/ cl[i - 1] \notin WordChars
        /\ \E kw \in AllocationNames : MatchAt(cl, i, kw)}

\* checkMemoryAllocation(line, lineNumber, diagnostics): what it pushes.
checkMemoryAllocation(line, lineNumber) ==
    LET checkLine == StripComment(line)
        M == AllocationMatches(checkLine)
    IN  IF \E i \in M : \E kw \in AllocationNames :
              /\ MatchAt(checkLine, i, kw)
              /\ LET p == SkipSpace(checkLine, i + Len(kw))
                 IN  p <= Len(checkLine) /\ checkLine[p] = "("
        THEN LET first == CHOOSE i \in M : \A j \in M : i <= j
                 word == CHOOSE kw \in AllocationNames : MatchAt(checkLine, first, kw)
             IN  << Diagnostic(lineNumber, IndexOf(checkLine, word) - 1, Len(checkLine),
                               "Information",
                               "Remember to free allocated memory to prevent memory leaks") >>
        ELSE << >>

\* /\bNULL\b/.test(t) || /\b!=\s*NULL|==\s*NULL\b/.test(t)
HasNullCheck(t) ==
    \/ \E i \in 1..Len(t) :
          /\ MatchAt(t, i, Chars("NULL"))
          /\ i = 1 \/ t[i - 1] \notin WordChars
          /\ i + 4 > Len(t) \/ t[i + 4] \notin WordChars
    \/ \E i \in 2..Len(t) :
          /\ t[i - 1] \in WordChars
          /\ MatchAt(t, i, Chars("!="))
          /\ MatchAt(t, SkipSpace(t, i + 2), Chars("NULL"))
    \/ \E i \in 1..Len(t) :
          /\ MatchAt(t, i, Chars("=="))
          /\ LET p == SkipSpace(t, i + 2)
             IN  /\ MatchAt(t, p, Chars("NULL"))
                 /\ p + 4 > Len(t) \/ t[p + 4] \notin WordChars

\* /\bif\s*\(/.test(t) || /perror/.test(t)
HasErrorHandling(t) ==
    \/ \E i \in 1..Len(t) :
          /\ MatchAt(t, i, Chars("if"))
          /\ i = 1 \/ t[i - 1] \notin WordChars
          /\ LET p == SkipSpace(t, i + 2) IN p <= Len(t) /\ t[p] = "("
    \/ IndexOf(t, Chars("perror")) # 0

\* lines.slice(lineNumber + 1, Math.min(lineNumber + 5, lines.length)).join('\n')
NextLines(lines, lineNumber) ==
    Join(SubSeq(lines, lineNumber + 2,
                IF lineNumber + 5 < Len(lines) THEN lineNumber + 5 ELSE Len(lines)))

\* checkFopenWithoutNullCheck(lines, line, lineNumber, diagnostics): what it
\* pushes.
checkFopenWithoutNullCheck(lines, line, lineNumber) ==
    LET checkLine == StripComment(line)
    IN  IF /\ IndexOf(checkLine, Chars("fopen(")) # 0
           /\ ~HasNullCheck(NextLines(lines, lineNumber))
           /\ ~HasErrorHandling(NextLines(lines, lineNumber))
        THEN << Diagnostic(lineNumber, IndexOf(checkLine, Chars("fopen")) - 1,
                           Len(checkLine), "Information",
                           "Consider checking if fopen() returned NULL before using the file pointer") >>
        ELSE << >>

RECURSIVE ScanFrom(_, _)
\* The loop of runDiagnostics from 0-based line i on: the four checks of every
\* line, in order.
ScanFrom(lines, i) ==
    IF i >= Len(lines) THEN << >>
    ELSE checkUnsafeFunctions(lines[i + 1], i)
         \o checkAssignmentInConditional(lines[i + 1], i)
         \o checkMemoryAllocation(lines[i + 1], i)
         \o checkFopenWithoutNullCheck(lines, lines[i + 1], i)
         \o ScanFrom(lines, i + 1)

\* diagnosticCollection.set(uri, found) after a merge instead of a replacement.
MergeDiagnostics(published, found) == published \o found

\* diagnosticCollection.set(uri, found): found replaces what was published.
SetDiagnostics(published, found) == found

\* runDiagnostics(document): the set published for the document afterwards.
runDiagnostics(lines, published) == SetDiagnostics(published, ScanFrom(lines, 0))

(***************************************************************************)
(* State                                                                   *)
(***************************************************************************)

\* The C documents of the model.
Docs == {"A", "B"}

\* The text of a document that does not exist: no line at all.
NoDocument == << >>

\* The workspaces whose only document is "A", holding one of texts.
OneDocument(texts) ==
    {[d \in Docs |-> IF d = "A" THEN t ELSE NoDocument] : t \in texts}

\* The user events (open, change, selection, save, editor switch) of one run.
MaxEvents == 3

\* The user events of one run of the specification with fairness.
MaxFairEvents == 2

VARIABLES
    text,                 \* text[d]: the lines of document d
    version,              \* version[d]: the host's version of document d
    opened,               \* opened[d]: d has been opened in the editor
    activeEditor,         \* the document of vscode.window.activeTextEditor, or "none"
    isProcessingChange,   \* the re-entrancy flag
    prototypeCheckTimer,  \* the document of the pending prototype timer, or "none"
    lastCursorLine,       \* the line of the last handled selection event, -1 at start
    timers,               \* the other pending setTimeout callbacks (a bag)
    edits,                \* the requests sent to the host, oldest first
    events,               \* the number of user events still to come
    lastStep,             \* the step that led to the current state
    diagnostics,          \* diagnostics[d]: what diagnosticCollection holds for d
    activated,            \* the listeners of activate() are registered
    search                \* the last reference search and what came of it

vars == << text, version, opened, activeEditor, isProcessingChange,
           prototypeCheckTimer, lastCursorLine, timers, edits, events, lastStep,
           diagnostics, activated, search >>

Lines(ss) == [i \in 1..Len(ss) |-> Chars(ss[i])]

\* initialTemplate of setupNewCFileFromDocument, split at its line breaks.
InitialTemplate ==
    Lines(<< "#include <stdio.h>", "#include <stdlib.h>", "", "", "int main() {",
             "\t", "\treturn 0;", "}" >>)

\* The delays of the timers that clear the flag, in milliseconds.
SemicolonReleaseDelay == 50

PrototypeReleaseDelay == 200

TemplateReleaseDelay == 300

\* A pending callback: kind names the code that runs, line is the captured
\* lineNum of a semicolon check or the delay of a flag release.
Timer(kind, d, line) == [kind |-> kind, doc |-> d, line |-> line]

\* A request to the host. op "edit" inserts text (split at its line breaks) at
\* (line, column) of document doc, prepared against version; op "show" is
\* showTextDocument. result is "pending" until the host has answered, then
\* "true", "false" or "rejected" until the awaiting code has resumed.
Edit(pass, d, ver, line, column, txt) ==
    [pass |-> pass, op |-> "edit", doc |-> d, version |-> ver, line |-> line,
     column |-> column, text |-> txt, result |-> "pending"]

Show(d) ==
    [pass |-> "template", op |-> "show", doc |-> d, version |-> 0, line |-> 0,
     column |-> 0, text |-> << >>, result |-> "pending"]

\* The request of setupNewCFile: op "open" is workspace.openTextDocument.
OpenRequest(d) ==
    [pass |-> "template", op |-> "open", doc |-> d, version |-> 0, line |-> 0,
     column |-> 0, text |-> << >>, result |-> "pending"]

\* The part of the state the handlers write: the flag, the requests, the timers,
\* the prototype timer.
Ctl(flag, q, ts, pt) == [flag |-> flag, edits |-> q, timers |-> ts, proto |-> pt]

AddTimer(ts, t) ==
    IF t \in DOMAIN ts THEN [ts EXCEPT ![t] = @ + 1] ELSE ts @@ (t :> 1)

RemoveTimer(ts, t) ==
    IF ts[t] > 1 THEN [ts EXCEPT ![t] = @ - 1]
    ELSE [u \in DOMAIN ts \ {t} |-> ts[u]]

\* document.getText().trim() === ''
IsBlank(lines) == \A n \in 1..Len(lines) : Trim(lines[n]) = << >>

(***************************************************************************)
(* The passes, up to their first await                                     *)
(***************************************************************************)

\* autoAddRequiredHeaders(document) up to the await of editor.edit: no test of
\* the flag; computes from the current lines and sends one edit.
autoAddRequiredHeaders(d, lines, ver, active, c) ==
    IF active # d THEN c
    ELSE IF RequiredHeaders(lines) = {} THEN c
    ELSE [c EXCEPT !.flag = TRUE,
                   !.edits = Append(@, Edit("header", d, ver, InsertionLine(lines), 0,
                                            HeaderText(lines)))]

\* autoGeneratePrototypes(document) up to the await of editor.edit.
autoGeneratePrototypes(d, lines, ver, active, c) ==
    IF c.flag THEN c
    ELSE IF active # d THEN c
    ELSE IF MissingPrototypes(lines) = << >> THEN c
    ELSE [c EXCEPT !.flag = TRUE,
                   !.edits = Append(@, Edit("prototype", d, ver, LastIncludeLine(lines) + 1, 0,
                                            PrototypesText(MissingPrototypes(lines))))]

\* addSemicolonIfNeeded without its call of shouldAddSemicolon.
addSemicolonAlways(d, lineNum, lines, ver, active, c) ==
    IF c.flag \/ lineNum < 0 \/ lineNum >= Len(lines) THEN c
    ELSE IF active # d THEN c
    ELSE [c EXCEPT !.flag = TRUE,
                   !.edits = Append(@, Edit("semicolon", d, ver, lineNum,
                                            Len(lines[lineNum + 1]), << << ";" >> >>))]

\* addSemicolonIfNeeded(document, lineNum) up to the await of editor.edit.
addSemicolonIfNeeded(d, lineNum, lines, ver, active, c) ==
    IF c.flag \/ lineNum < 0 \/ lineNum >= Len(lines) THEN c
    ELSE IF active # d THEN c
    ELSE IF shouldAddSemicolon(TrimEnd(lines[lineNum + 1]))
    THEN [c EXCEPT !.flag = TRUE,
                   !.edits = Append(@, Edit("semicolon", d, ver, lineNum,
                                            Len(lines[lineNum + 1]), << << ";" >> >>))]
    ELSE c

(***************************************************************************)
(* Event handlers                                                          *)
(***************************************************************************)

\* change.text.match(/\w+\s*\(/)
TextHasCall(cs) ==
    \E i \in 1..Len(cs) :
        /\ cs[i] \in WordChars
        /\ LET p == SkipSpace(cs, i + 1) IN p <= Len(cs) /\ cs[p] = "("

RECURSIVE ContentChangesLoop(_, _, _, _, _, _)
\* The loop over event.contentChanges: a semicolon timer for the start line of
\* every change that holds a line break, a header pass for every change that
\* holds a call. A change is [text, line]: the inserted text and range.start.line.
ContentChangesLoop(d, changes, lines, ver, active, c) ==
    IF changes = << >> THEN c
    ELSE LET change == Head(changes)
             c1 == IF \E i \in 1..Len(change.text) : change.text[i] = "\n"
                   THEN [c EXCEPT !.timers = AddTimer(@, Timer("semicolon", d, change.line))]
                   ELSE c
             c2 == IF TextHasCall(change.text)
                   THEN autoAddRequiredHeaders(d, lines, ver, active, c1)
                   ELSE c1
         IN  ContentChangesLoop(d, Tail(changes), lines, ver, active, c2)

\* Scheduling a prototype check of d without clearTimeout: the timer that was
\* pending stays alive among the timers no handle designates.
SchedulePrototypeCheckUncancelled(d, c) ==
    [c EXCEPT !.proto = d,
              !.timers = IF c.proto = "none" THEN @
                         ELSE AddTimer(@, Timer("prototypeCheck", c.proto, -1))]

\* if (prototypeCheckTimer) clearTimeout(prototypeCheckTimer), then
\* prototypeCheckTimer = setTimeout(() => autoGeneratePrototypes(document), 1500):
\* the pending timer is dropped and the one handle designates the new timer.
SchedulePrototypeCheck(d, c) == [c EXCEPT !.proto = d]

\* The onDidChangeTextDocument handler without its test of isProcessingChange.
onDidChangeTextDocumentUnguarded(d, changes, lines, ver, active, c) ==
    SchedulePrototypeCheck(d, ContentChangesLoop(d, changes, lines, ver, active, c))

\* The onDidChangeTextDocument handler, run on the text after the change.
onDidChangeTextDocument(d, changes, lines, ver, active, c) ==
    IF c.flag THEN c
    ELSE SchedulePrototypeCheck(d, ContentChangesLoop(d, changes, lines, ver, active, c))

\* The onDidChangeTextEditorSelection handler for a selection on currentLine:
\* the control state and lastCursorLine after it.
onDidChangeTextEditorSelection(d, currentLine, lines, ver, active, c, last) ==
    IF c.flag THEN [ctl |-> c, last |-> last]
    ELSE [ctl |-> IF last >= 0 /\ currentLine # last /\ last < Len(lines)
                  THEN addSemicolonIfNeeded(d, last, lines, ver, active, c)
                  ELSE c,
          last |-> currentLine]

\* The onDidSaveTextDocument handler: the prototype pass, then the header pass.
onDidSaveTextDocument(d, lines, ver, active, c) ==
    autoAddRequiredHeaders(d, lines, ver, active,
                           autoGeneratePrototypes(d, lines, ver, active, c))

(***************************************************************************)
(* Actions                                                                 *)
(***************************************************************************)

\* What lastStep records of a step: its kind, its document, the pass and the
\* host's answer where there is one, and the flag as the step found it.
Step(kind, d, pass, result) ==
    [kind |-> kind, doc |-> d, pass |-> pass, result |-> result,
     flag |-> isProcessingChange]

Now == Ctl(isProcessingChange, edits, timers, prototypeCheckTimer)

\* The handlers' writes become the next state.
Becomes(c) ==
    /\ isProcessingChange' = c.flag
    /\ edits' = c.edits
    /\ timers' = c.timers
    /\ prototypeCheckTimer' = c.proto

\* The files a document can hold when it is opened.
InitialTexts ==
    { << << >> >>,
      Lines(<< "#include <stdio.h>", "int main() {", "x = strlen(s)", "}",
               "int add(int a) {", "}" >>) }

\* The 0-based lines the user types on: the statement of main's body in the
\* second initial text, the empty line of main's body in the template.
TypingLines == {2, 5}

\* The 0-based lines the user moves the cursor to.
CursorLines == {0, 2, 5}

\* What the user types or pastes at the end of a line: Enter, an opening
\* parenthesis, a call.
Snippets == { << << >>, << >> >>, << Chars("(") >>, << Chars("sqrt(x)") >> }

\* The state after activate(), before any document is opened.
Activated ==
    /\ version = [d \in Docs |-> 1]
    /\ opened = [d \in Docs |-> FALSE]
    /\ activeEditor = "none"
    /\ isProcessingChange = FALSE
    /\ prototypeCheckTimer = "none"
    /\ lastCursorLine = -1
    /\ timers = << >>
    /\ edits = << >>
    /\ lastStep = [kind |-> "init", doc |-> "none", pass |-> "none", result |-> "none",
                   flag |-> FALSE]
    /\ diagnostics = [e \in Docs |-> << >>]
    /\ activated = TRUE
    /\ search = Searched("none", "", "none", << >>, FALSE)

\* The state after activate() when document d is already open in the active
\* editor.
Editing(d) ==
    /\ text[d] # NoDocument
    /\ version = [e \in Docs |-> 1]
    /\ opened = [e \in Docs |-> text[e] # NoDocument]
    /\ activeEditor = d
    /\ isProcessingChange = FALSE
    /\ prototypeCheckTimer = "none"
    /\ lastCursorLine = -1
    /\ timers = << >>
    /\ edits = << >>
    /\ lastStep = [kind |-> "init", doc |-> "none", pass |-> "none", result |-> "none",
                   flag |-> FALSE]
    /\ diagnostics = [e \in Docs |-> << >>]
    /\ activated = TRUE
    /\ search = Searched("none", "", "none", << >>, FALSE)

Init ==
    /\ text \in OneDocument(InitialTexts)
    /\ events = MaxEvents
    /\ Activated

\* The timer the onDidOpenTextDocument handler schedules for document d.
OpenTimer(d) ==
    IF IsBlank(text[d]) THEN Timer("openTemplate", d, -1) ELSE Timer("openHeaders", d, -1)

\* The user opens document d in the editor: onDidOpenTextDocument.
OpenDocument(d) ==
    /\ activated
    /\ text[d] # NoDocument
    /\ ~opened[d]
    /\ events > 0
    /\ opened' = [opened EXCEPT ![d] = TRUE]
    /\ activeEditor' = d
    /\ timers' = AddTimer(timers, OpenTimer(d))
    /\ events' = events - 1
    /\ lastStep' = Step("open", d, "none", "none")
    /\ UNCHANGED << text, version, isProcessingChange, prototypeCheckTimer,
                    lastCursorLine, edits >>
    /\ UNCHANGED << diagnostics, activated, search >>

\* The user inserts snippet at the end of 0-based line n of the active document:
\* the host changes the text, then onDidChangeTextDocument runs.
UserChange(d, n, snippet) ==
    /\ activated
    /\ opened[d]
    /\ n < Len(text[d])
    /\ activeEditor = d
    /\ events > 0
    /\ LET lines == InsertText(text[d], n, Len(text[d][n + 1]), snippet)
       IN  /\ text' = [text EXCEPT ![d] = lines]
           /\ version' = [version EXCEPT ![d] = @ + 1]
           /\ Becomes(onDidChangeTextDocument(
                        d, << [text |-> Join(snippet), line |-> n] >>, lines,
                        version[d] + 1, activeEditor, Now))
    /\ events' = events - 1
    /\ lastStep' = Step("change", d, "none", "none")
    /\ UNCHANGED << opened, activeEditor, lastCursorLine >>
    /\ UNCHANGED << diagnostics, activated, search >>

\* The cursor of document d moves to 0-based line n.
SelectionChanged(d, n) ==
    /\ activated
    /\ opened[d]
    /\ n < Len(text[d])
    /\ events > 0
    /\ LET r == onDidChangeTextEditorSelection(d, n, text[d], version[d], activeEditor,
                                               Now, lastCursorLine)
       IN  /\ Becomes(r.ctl)
           /\ lastCursorLine' = r.last
    /\ events' = events - 1
    /\ lastStep' = Step("selection", d, "none", "none")
    /\ UNCHANGED << text, version, opened, activeEditor >>
    /\ UNCHANGED << diagnostics, activated, search >>

\* The user saves document d.
SaveDocument(d) ==
    /\ activated
    /\ opened[d]
    /\ events > 0
    /\ Becomes(onDidSaveTextDocument(d, text[d], version[d], activeEditor, Now))
    /\ events' = events - 1
    /\ lastStep' = Step("save", d, "none", "none")
    /\ UNCHANGED << text, version, opened, activeEditor, lastCursorLine >>
    /\ diagnostics' = [diagnostics EXCEPT ![d] = runDiagnostics(text[d], @)]
    /\ UNCHANGED << activated, search >>

\* The active editor becomes that of e, or none holding a C document.
ActiveEditorChanged(e) ==
    /\ activated
    /\ e # activeEditor
    /\ IF e = "none" THEN TRUE ELSE opened[e]
    /\ events > 0
    /\ activeEditor' = e
    /\ events' = events - 1
    /\ lastStep' = Step("switch", e, "none", "none")
    /\ UNCHANGED << text, version, opened, isProcessingChange, prototypeCheckTimer,
                    lastCursorLine, timers, edits >>
    /\ UNCHANGED << diagnostics, activated, search >>

\* The callback of pending timer t when it runs.
TimerCallback(t, c) ==
    IF t.kind = "semicolon"
    THEN addSemicolonIfNeeded(t.doc, t.line, text[t.doc], version[t.doc], activeEditor, c)
    ELSE IF t.kind = "openHeaders"
    THEN autoAddRequiredHeaders(t.doc, text[t.doc], version[t.doc], activeEditor, c)
    ELSE IF t.kind = "openTemplate"
    THEN [c EXCEPT !.edits = Append(@, Show(t.doc))]
    ELSE IF t.kind = "createdTemplate"
    THEN [c EXCEPT !.edits = Append(@, OpenRequest(t.doc))]
    ELSE [c EXCEPT !.flag = FALSE]

\* A pending timer other than the prototype timer fires.
TimerFires(t) ==
    /\ t \in DOMAIN timers
    /\ Becomes(TimerCallback(t, [Now EXCEPT !.timers = RemoveTimer(@, t)]))
    /\ lastStep' = Step("timer", t.doc, t.kind, "none")
    /\ UNCHANGED << text, version, opened, activeEditor, lastCursorLine, events >>
    /\ UNCHANGED << diagnostics, activated, search >>

\* The prototype timer fires.
PrototypeTimerFires ==
    /\ prototypeCheckTimer # "none"
    /\ LET d == prototypeCheckTimer
       IN  /\ Becomes(autoGeneratePrototypes(d, text[d], version[d], activeEditor,
                                             [Now EXCEPT !.proto = "none"]))
           /\ lastStep' = Step("timer", d, "prototypeCheck", "none")
    /\ UNCHANGED << text, version, opened, activeEditor, lastCursorLine, events >>
    /\ UNCHANGED << diagnostics, activated, search >>

\* The index of the oldest request the host has not answered, 0 if none.
OldestPending ==
    IF \E i \in 1..Len(edits) : edits[i].result = "pending"
    THEN CHOOSE i \in 1..Len(edits) :
            /\ edits[i].result = "pending"
            /\ \A k \in 1..(i - 1) : edits[k].result # "pending"
    ELSE 0

\* The host serves the oldest request. An edit prepared against the current
\* version is applied (and onDidChangeTextDocument runs for it), one prepared
\* against an older version is refused: editor.edit resolves to false.
\* openTextDocument loads a document that is not open yet, and
\* onDidOpenTextDocument runs for it.
HostServes ==
    /\ OldestPending # 0
    /\ LET i == OldestPending
           e == edits[i]
           d == e.doc
       IN  IF e.op = "open"
           THEN /\ opened' = [opened EXCEPT ![d] = TRUE]
                /\ timers' = IF opened[d] \/ ~activated THEN timers
                              ELSE AddTimer(timers, OpenTimer(d))
                /\ edits' = [edits EXCEPT ![i].result = "true"]
                /\ lastStep' = Step("host", d, e.pass, "true")
                /\ UNCHANGED << text, version, activeEditor, isProcessingChange,
                                prototypeCheckTimer >>
           ELSE IF e.op = "show"
           THEN /\ activeEditor' = d
                /\ edits' = [edits EXCEPT ![i].result = "true"]
                /\ lastStep' = Step("host", d, e.pass, "true")
                /\ UNCHANGED << text, version, isProcessingChange, prototypeCheckTimer,
                                timers, opened >>
           ELSE IF e.version # version[d]
           THEN /\ edits' = [edits EXCEPT ![i].result = "false"]
                /\ lastStep' = Step("host", d, e.pass, "false")
                /\ UNCHANGED << text, version, activeEditor, isProcessingChange,
                                prototypeCheckTimer, timers, opened >>
           ELSE LET lines == InsertText(text[d], e.line, e.column, e.text)
                    startLine == IF e.line >= Len(text[d]) THEN Len(text[d]) - 1 ELSE e.line
                IN  /\ text' = [text EXCEPT ![d] = lines]
                    /\ version' = [version EXCEPT ![d] = @ + 1]
                    /\ Becomes(IF activated
                               THEN onDidChangeTextDocument(
                                        d, << [text |-> Join(e.text), line |-> startLine] >>,
                                        lines, version[d] + 1, activeEditor,
                                        [Now EXCEPT !.edits[i].result = "true"])
                               ELSE [Now EXCEPT !.edits[i].result = "true"])
                    /\ lastStep' = Step("host", d, e.pass, "true")
                    /\ UNCHANGED << activeEditor, opened >>
    /\ UNCHANGED << lastCursorLine, events >>
    /\ UNCHANGED << diagnostics, activated, search >>

\* The host fails the oldest request: the awaited promise rejects.
HostFails ==
    /\ OldestPending # 0
    /\ edits' = [edits EXCEPT ![OldestPending].result = "rejected"]
    /\ lastStep' = Step("host", edits[OldestPending].doc, edits[OldestPending].pass, "rejected")
    /\ UNCHANGED << text, version, opened, activeEditor, isProcessingChange,
                    prototypeCheckTimer, lastCursorLine, timers, events >>
    /\ UNCHANGED << diagnostics, activated, search >>

\* The code after the await when only an applied edit schedules the release.
ContinuationWithoutRelease(e, c) ==
    IF e.pass = "header" THEN [c EXCEPT !.flag = FALSE]
    ELSE IF e.result = "rejected" THEN [c EXCEPT !.flag = FALSE]
    ELSE IF e.op = "show"
    THEN [c EXCEPT !.flag = TRUE,
                   !.edits = Append(@, Edit("template", e.doc, version[e.doc], 0, 0,
                                            InitialTemplate))]
    ELSE IF e.result = "false" THEN c
    ELSE IF e.pass = "semicolon"
    THEN [c EXCEPT !.timers = AddTimer(@, Timer("release", "none", SemicolonReleaseDelay))]
    ELSE IF e.pass = "prototype"
    THEN [c EXCEPT !.timers = AddTimer(@, Timer("release", "none", PrototypeReleaseDelay))]
    ELSE [c EXCEPT !.timers = AddTimer(@, Timer("release", "none", TemplateReleaseDelay))]

\* The code after the await of answered request e.
Continuation(e, c) ==
    IF e.op = "open"
    THEN IF e.result = "true" /\ IsBlank(text[e.doc])
         THEN [c EXCEPT !.edits = Append(@, Show(e.doc))]
         ELSE c
    ELSE IF e.pass = "header" THEN [c EXCEPT !.flag = FALSE]
    ELSE IF e.result = "rejected" THEN [c EXCEPT !.flag = FALSE]
    ELSE IF e.pass = "semicolon"
    THEN [c EXCEPT !.timers = AddTimer(@, Timer("release", "none", SemicolonReleaseDelay))]
    ELSE IF e.pass = "prototype"
    THEN [c EXCEPT !.timers = AddTimer(@, Timer("release", "none", PrototypeReleaseDelay))]
    ELSE IF e.op = "show"
    THEN [c EXCEPT !.flag = TRUE,
                   !.edits = Append(@, Edit("template", e.doc, version[e.doc], 0, 0,
                                            InitialTemplate))]
    ELSE [c EXCEPT !.timers = AddTimer(@, Timer("release", "none", TemplateReleaseDelay))]

\* The pass that awaits the oldest request resumes once the host has answered.
PassResumes ==
    /\ edits # << >>
    /\ Head(edits).result # "pending"
    /\ Becomes(Continuation(Head(edits), [Now EXCEPT !.edits = Tail(@)]))
    /\ lastStep' = Step("resume", Head(edits).doc, Head(edits).pass, Head(edits).result)
    /\ UNCHANGED << text, version, opened, activeEditor, lastCursorLine, events >>
    /\ UNCHANGED << diagnostics, activated, search >>

Next ==
    \/ \E d \in Docs : OpenDocument(d)
    \/ \E d \in Docs : \E n \in TypingLines : \E s \in Snippets : UserChange(d, n, s)
    \/ \E d \in Docs : \E n \in CursorLines : SelectionChanged(d, n)
    \/ \E d \in Docs : SaveDocument(d)
    \/ \E e \in Docs \cup {"none"} : ActiveEditorChanged(e)
    \/ \E t \in DOMAIN timers : TimerFires(t)
    \/ PrototypeTimerFires
    \/ HostServes
    \/ HostFails
    \/ PassResumes

Spec == Init /\ [][Next]_vars

\* The scheduling the liveness claims assume: the host answers every request,
\* the pass that awaits an answered request resumes, and a pending timer fires.
\* The first and the last are weak fairness of the host's and the timers' steps
\* written out, WF_vars(A) being []<>~ENABLED <<A>>_vars \/ []<><<A>>_vars, with
\* the enabling condition as a state predicate and the step named by lastStep.
Fairness ==
    /\ []<>(OldestPending = 0) \/ []<><<lastStep'.kind = "host">>_vars
    /\ WF_vars(PassResumes)
    /\ \/ []<>(timers = << >> /\ prototypeCheckTimer = "none")
       \/ []<><<lastStep'.kind = "timer">>_vars

FairInit ==
    /\ text \in OneDocument(InitialTexts)
    /\ events = MaxFairEvents
    /\ Activated \/ \E d \in Docs : Editing(d)

FairSpec == FairInit /\ [][Next]_vars /\ Fairness

(***************************************************************************)
(* The re-entrancy flag                                                    *)
(***************************************************************************)

\* The edits sent to the host that it has not answered yet.
OutstandingEdits ==
    {i \in 1..Len(edits) : edits[i].op = "edit" /\ edits[i].result = "pending"}

\* C1: at any time at most one buffer-mutating pass has an edit outstanding.
C1_OneEditOutstanding == Cardinality(OutstandingEdits) <= 1

\* C2: a text-change or selection event that finds isProcessingChange set is
\* ignored: it schedules no timer, starts no pass, leaves the prototype timer
\* and lastCursorLine as they are, and the flag stays set.
C2_EventsIgnoredUnderFlag ==
    [][(isProcessingChange /\ lastStep'.kind \in {"change", "selection"})
        => /\ timers' = timers
           /\ edits' = edits
           /\ prototypeCheckTimer' = prototypeCheckTimer
           /\ lastCursorLine' = lastCursorLine
           /\ isProcessingChange']_vars

\* A change event and a selection event have each arrived with the flag set.
C2_Witness ==
    /\ lastStep.kind \in {"change", "selection"}
    /\ lastStep.flag
    /\ prototypeCheckTimer = "none"
    /\ edits # << >>

\* C3: when the edit of a pass has completed and its pass resumes, the flag
\* stays set (it is released only a fixed delay later).
C3_FlagHeldWhenEditCompletes ==
    (lastStep.kind = "resume" /\ lastStep.result = "true") => isProcessingChange

\* C4: whenever isProcessingChange is set it is eventually cleared.
C4_FlagEventuallyCleared == isProcessingChange ~> ~isProcessingChange

\* A refused edit (editor.edit resolved to false) has resumed its pass with the
\* flag still set.
C4_Witness ==
    /\ lastStep.kind = "resume"
    /\ lastStep.result = "false"
    /\ isProcessingChange

(***************************************************************************)
(* Header inference on its own: header passes, one after the other, over   *)
(* every buffer of up to MaxHeaderLines lines drawn from HeaderLinePool    *)
(***************************************************************************)

MaxHeaderLines == 3

\* The header passes of one run.
MaxHeaderPasses == 2

HeaderLinePool ==
    { Chars("#include <stdio.h>"), Chars("#include \"string.h\""),
      Chars("printf(s); n = strlen(s)"), Chars("x = sqrt(y) // strlen("),
      Chars("toString(x)"), << >> }

RECURSIVE Buffers(_, _)
\* The buffers of 1 to n lines from pool.
Buffers(pool, n) ==
    IF n = 0 THEN {}
    ELSE {<< l >> : l \in pool}
         \cup {Append(b, l) : b \in Buffers(pool, n - 1), l \in pool}

HeaderInit ==
    /\ text \in OneDocument(Buffers(HeaderLinePool, MaxHeaderLines))
    /\ events = MaxHeaderPasses
    /\ \E d \in Docs : Editing(d)

\* autoAddRequiredHeaders(d) is called once the previous pass has completed.
HeaderPassRuns(d) ==
    /\ opened[d]
    /\ events > 0
    /\ edits = << >>
    /\ Becomes(autoAddRequiredHeaders(d, text[d], version[d], activeEditor, Now))
    /\ events' = events - 1
    /\ lastStep' = Step("pass", d, "header", "none")
    /\ UNCHANGED << text, version, opened, activeEditor, lastCursorLine >>
    /\ UNCHANGED << diagnostics, activated, search >>

HeaderNext ==
    \/ \E d \in Docs : HeaderPassRuns(d)
    \/ HostServes
    \/ PassResumes

HeaderSpec == HeaderInit /\ [][HeaderNext]_vars

\* The requests of pass that the host has applied and whose pass has not resumed:
\* in such a state text is the buffer the pass produced.
Applied(pass) ==
    {e \in {edits[i] : i \in 1..Len(edits)} :
        e.pass = pass /\ e.op = "edit" /\ e.result = "true"}

\* The requests of pass that the host has not answered: in HeaderSpec and
\* PrototypeSpec text is still the snapshot the pass computed them from.
Sent(pass) ==
    {e \in {edits[i] : i \in 1..Len(edits)} :
        e.pass = pass /\ e.op = "edit" /\ e.result = "pending"}

\* C5: a header pass over the buffer a completed header pass produced finds no
\* missing header.
C5_HeaderPassIdempotent ==
    \A e \in Applied("header") : RequiredHeaders(text[e.doc]) = {}

\* The headers of the catalog.
CatalogHeaders == {FUNCTION_TO_HEADER[f] : f \in DOMAIN FUNCTION_TO_HEADER}

\* Line holds, before any "//", the identifier name immediately followed by "(".
CallsImmediately(line, name) ==
    LET cl == CheckLine(line)
    IN  \E i \in 1..Len(cl) :
            /\ MatchAt(cl, i, Chars(name))
            /\ i = 1 \/ cl[i - 1] \notin WordChars
            /\ i + Len(name) <= Len(cl)
            /\ cl[i + Len(name)] = "("

\* Line is an #include <h> or #include "h" line.
NamesHeader(line, h) ==
    \E o \in {<< "<", ">" >>, << "\"", "\"" >>} :
        LET t == Trim(line)
            p == SkipSpace(t, 9)
        IN  /\ StartsWith(t, Chars("#include"))
            /\ SubSeq(t, p, Len(t)) = << o[1] >> \o Chars(h) \o << o[2] >>

\* The set of headers C6 describes.
ClaimedHeaders(lines) ==
    {h \in CatalogHeaders :
        /\ \E n \in 1..Len(lines) : \E f \in DOMAIN FUNCTION_TO_HEADER :
              FUNCTION_TO_HEADER[f] = h /\ CallsImmediately(lines[n], f)
        /\ ~\E n \in 1..Len(lines) : NamesHeader(lines[n], h)}

\* The insertion line C6 describes.
ClaimedInsertionLine(lines) ==
    LET S == {n \in 1..Len(lines) : StartsWith(Trim(lines[n]), Chars("#include"))}
    IN  IF S = {} THEN 0 ELSE CHOOSE n \in S : \A m \in S : m <= n

\* The headers of the #include lines a header edit inserts.
BlockHeaders(e) ==
    {Str(SubSeq(e.text[k], 11, Len(e.text[k]) - 1)) : k \in 1..(Len(e.text) - 1)}

\* C6: the header pass computes exactly the catalog headers of the called
\* catalog functions that no include line names, and the insertion line is one
\* past the last include line, 0 when there is none.
C6_ExactHeaderSet ==
    \A d \in Docs :
        (lastStep.kind = "pass" /\ lastStep.doc = d)
        => IF ClaimedHeaders(text[d]) = {} THEN Sent("header") = {}
           ELSE /\ Cardinality(Sent("header")) = 1
                /\ \A e \in Sent("header") :
                      /\ BlockHeaders(e) = ClaimedHeaders(text[d])
                      /\ e.line = ClaimedInsertionLine(text[d])

\* Line is "#include <h>".
IsIncludeOf(line, h) == line = Chars("#include <") \o Chars(h) \o << ">" >>

\* The block of a header edit: its lines but the empty remainder after the last
\* line break.
Block(e) == SubSeq(e.text, 1, Len(e.text) - 1)

\* e inserted its block on 0-based line e.line of the buffer lines: the block's
\* lines are the lines e.line, e.line + 1, ... of lines.
BlockAt(e, lines) ==
    /\ e.line + Len(Block(e)) <= Len(lines)
    /\ SubSeq(lines, e.line + 1, e.line + Len(Block(e))) = Block(e)

\* C7 as claimed: the missing headers are inserted at the insertion line as one
\* sorted block, one #include <H> line each, and the block is followed by one
\* blank line (checked where the insertion line is a line of the buffer).
C7_BlockFollowedByBlankLine ==
    \A e \in Applied("header") :
        e.line < Len(text[e.doc]) - Len(Block(e))
        => /\ BlockAt(e, text[e.doc])
           /\ Trim(text[e.doc][e.line + Len(Block(e)) + 1]) = << >>

\* C7 amended: a header pass with a non-empty missing set sends one edit; it
\* inserts, at column 0 of the insertion line, one "#include <H>" line per
\* missing header, in ascending order, each ended by a line break and nothing
\* after the last: no blank line is added. Where the insertion line exists in
\* the buffer, the block occupies it and the lines after it.
C7_HeaderEdit ==
    /\ Cardinality(Sent("header")) <= 1
    /\ \A e \in Sent("header") :
          LET lines == text[e.doc]
              missing == {h.text : h \in RequiredHeaders(lines)}
              block == Block(e)
          IN  /\ missing # {}
              /\ e.column = 0
              /\ e.line = ClaimedInsertionLine(lines)
              /\ e.text[Len(e.text)] = << >>
              /\ Len(block) = Cardinality(missing)
              /\ \A k \in 1..Len(block) : \E h \in missing : IsIncludeOf(block[k], h)
              /\ \A k \in 1..(Len(block) - 1) : StrLess(Str(block[k]), Str(block[k + 1]))
    /\ \A e \in Applied("header") :
          e.line < Len(text[e.doc]) - Len(Block(e)) => BlockAt(e, text[e.doc])

\* A header pass has sent an edit with two headers for a buffer with an include
\* line, and an edit with two headers has been applied.
C7_Witness ==
    \/ \E e \in Sent("header") : Len(Block(e)) >= 2 /\ e.line > 0
    \/ \E e \in Applied("header") :
          /\ Len(Block(e)) >= 2
          /\ BlockAt(e, text[e.doc])
          /\ e.line + Len(Block(e)) < Len(text[e.doc])
          /\ Trim(text[e.doc][e.line + Len(Block(e)) + 1]) # << >>

(***************************************************************************)
(* Prototype synthesis on its own: prototype passes, one after the other,  *)
(* over every buffer of up to MaxPrototypeLines lines drawn from           *)
(* PrototypeLinePool                                                       *)
(***************************************************************************)

MaxPrototypeLines == 5

\* The prototype passes of one run.
MaxPrototypePasses == 2

PrototypeLinePool ==
    { Chars("#include <stdio.h>"), Chars("int main() {"), Chars("int add(int a) {"),
      Chars("  long  add ( int a, int b ) { return a + b; }"), Chars("void f() {"),
      Chars("int add(int);"), << >> }

PrototypeInit ==
    /\ text \in OneDocument(Buffers(PrototypeLinePool, MaxPrototypeLines))
    /\ events = MaxPrototypePasses
    /\ \E d \in Docs : Editing(d)

\* autoGeneratePrototypes(d) is called once the previous pass has completed.
PrototypePassRuns(d) ==
    /\ opened[d]
    /\ events > 0
    /\ edits = << >>
    /\ Becomes(autoGeneratePrototypes(d, text[d], version[d], activeEditor, Now))
    /\ events' = events - 1
    /\ lastStep' = Step("pass", d, "prototype", "none")
    /\ UNCHANGED << text, version, opened, activeEditor, lastCursorLine >>
    /\ UNCHANGED << diagnostics, activated, search >>

PrototypeNext ==
    \/ \E d \in Docs : PrototypePassRuns(d)
    \/ HostServes
    \/ PassResumes
    \/ \E t \in DOMAIN timers : TimerFires(t)

PrototypeSpec == PrototypeInit /\ [][PrototypeNext]_vars

\* The 1-based lines of the definitions C8 describes, in line order, for the
\* last include on 0-based line l and main on 0-based line m.
CandidateLines(lines, l, m) ==
    SelectSeq([n \in 1..Len(lines) |-> n],
              LAMBDA n : /\ n > m + 1
                         /\ FunctionMatch(lines[n]) # << >>
                         /\ FunctionMatch(lines[n])[1].name # Chars("main")
                         /\ ~IsDeclared(FunctionMatch(lines[n])[1].name,
                                        Join(SubSeq(lines, l + 2, m))))

\* The candidates C8 describes.
Candidates(lines) ==
    LET l == LastIncludeLine(lines)
        m == MainLine(lines, l)
    IN  IF l = -1 \/ m = -1 THEN << >>
        ELSE [k \in 1..Len(CandidateLines(lines, l, m)) |->
                FunctionMatch(lines[CandidateLines(lines, l, m)[k]])[1].prototype]

\* p reads "returnType name(params);".
IsPrototype(p) ==
    \E rt \in ReturnTypes :
        /\ StartsWith(p, rt \o << " " >>)
        /\ Len(p) > Len(rt) + 1
        /\ p[Len(rt) + 2] \in IdentStart
        /\ LET q == SkipWord(p, Len(rt) + 2)
           IN  /\ q <= Len(p)
               /\ p[q] = "("
               /\ ClosingParen(p, q + 1) = Len(p) - 1
               /\ p[Len(p)] = ";"

\* The prototypes of a prototype edit: its lines between the leading and the
\* final line break.
Prototypes(e) == SubSeq(e.text, 2, Len(e.text) - 1)

\* C8: the prototype pass produces one candidate "returnType name(params);" for
\* each function definition on a line after main whose name is not main and has
\* no "name(...);" occurrence between the last include and main, and no other.
C8_Candidates ==
    \A d \in Docs :
        (lastStep.kind = "pass" /\ lastStep.doc = d /\ ~lastStep.flag)
        => IF Candidates(text[d]) = << >> THEN Sent("prototype") = {}
           ELSE /\ Cardinality(Sent("prototype")) = 1
                /\ \A e \in Sent("prototype") :
                      /\ Prototypes(e) = Candidates(text[d])
                      /\ \A k \in 1..Len(Prototypes(e)) : IsPrototype(Prototypes(e)[k])

\* A pass produced a candidate for a buffer in which another definition after
\* main is declared before main, and so has none.
C8_Witness ==
    \E e \in Sent("prototype") :
        LET lines == text[e.doc]
            m == MainLine(lines, LastIncludeLine(lines))
        IN  /\ lastStep.kind = "pass"
            /\ Len(Prototypes(e)) >= 1
            /\ \E n \in (m + 2)..Len(lines) :
                  /\ FunctionMatch(lines[n]) # << >>
                  /\ FunctionMatch(lines[n])[1].prototype
                        \notin {Prototypes(e)[k] : k \in 1..Len(Prototypes(e))}

\* The function name of prototype p.
PrototypeName(p) == SubSeq(p, IndexOf(p, << " " >>) + 1, IndexOf(p, << "(" >>) - 1)

\* C9: no prototype pass inserts two prototypes for one function name, and a
\* pass over a buffer a prototype pass produced inserts nothing.
C9_NoDuplicatePrototypes ==
    /\ \A e \in Applied("prototype") :
          \A j, k \in 1..Len(Prototypes(e)) :
              j # k => PrototypeName(Prototypes(e)[j]) # PrototypeName(Prototypes(e)[k])
    /\ \A d \in Docs : version[d] > 1 => Sent("prototype") = {}

\* C10 as claimed: the missing prototypes are inserted as one block right after
\* the last include line, in definition order, and the block is both preceded
\* and followed by a blank line in the resulting buffer.
C10_BlockBetweenBlankLines ==
    \A e \in Applied("prototype") :
        LET lines == text[e.doc]
            n == Len(Prototypes(e))
        IN  /\ e.line = LastIncludeLine(lines) + 1
            /\ lines[e.line + 1] = << >>
            /\ SubSeq(lines, e.line + 2, e.line + n + 1) = Prototypes(e)
            /\ e.line + n + 2 <= Len(lines)
            /\ Trim(lines[e.line + n + 2]) = << >>

\* C10 amended: when prototypes are missing, one edit inserts all of them right
\* after the last include line: an empty line, then one prototype per line in
\* the order of their definitions, then the line that followed the last include
\* line; no blank line is added after the block.
C10_PrototypeBlock ==
    [][\A d \in Docs :
         (lastStep'.kind = "host" /\ lastStep'.pass = "prototype" /\ lastStep'.doc = d
            /\ lastStep'.result = "true")
         => LET l == LastIncludeLine(text[d])
            IN  /\ Candidates(text[d]) # << >>
                /\ text'[d] = SubSeq(text[d], 1, l + 1) \o << << >> >>
                                \o Candidates(text[d])
                                \o SubSeq(text[d], l + 2, Len(text[d]))]_vars

\* An edit with two prototypes has been applied and the line after the block is
\* not blank.
C10_Witness ==
    \E e \in Applied("prototype") :
        LET lines == text[e.doc]
            n == Len(Prototypes(e))
        IN  /\ lastStep.kind = "host"
            /\ n >= 2
            /\ Prototypes(e)[1] # Prototypes(e)[2]
            /\ Trim(lines[e.line + n + 2]) # << >>

(***************************************************************************)
(* Semicolon insertion on its own: the cursor is on the first line of a    *)
(* two-line buffer whose first line is drawn from SemicolonLines; the user *)
(* presses Enter at its end and moves the cursor                           *)
(***************************************************************************)

MaxSemicolonEvents == 3

\* What a line starts with.
SemicolonStems ==
    { "", "int x = 5", "if (x > 0)", "if (a) foo(b)", "if (a) { b(); ",
      "int add(int a, int b)", "case 1", "default", "// c", "/* c", "* c",
      "#define A 1", "struct p", "else", "x = a" }

\* What a line ends with.
SemicolonEndings == { "", ";", "{", "}", ":", "[", " ", "; ", " */" }

SemicolonLines == {Chars(a \o b) : a \in SemicolonStems, b \in SemicolonEndings}

\* The editor shows document d with the cursor on its first line: the state
\* after the selection event that put it there.
SemicolonInit ==
    /\ text \in OneDocument({<< l, << >> >> : l \in SemicolonLines})
    /\ events = MaxSemicolonEvents
    /\ version = [e \in Docs |-> 1]
    /\ opened = [e \in Docs |-> text[e] # NoDocument]
    /\ activeEditor \in {e \in Docs : text[e] # NoDocument}
    /\ isProcessingChange = FALSE
    /\ prototypeCheckTimer = "none"
    /\ lastCursorLine = 0
    /\ timers = << >>
    /\ edits = << >>
    /\ lastStep = [kind |-> "init", doc |-> "none", pass |-> "none", result |-> "none",
                   flag |-> FALSE]
    /\ diagnostics = [e \in Docs |-> << >>]
    /\ activated = TRUE
    /\ search = Searched("none", "", "none", << >>, FALSE)

SemicolonNext ==
    \/ \E d \in Docs : UserChange(d, 0, << << >>, << >> >>)
    \/ \E d \in Docs : \E n \in {0, 1} : SelectionChanged(d, n)
    \/ \E t \in DOMAIN timers : TimerFires(t)
    \/ PrototypeTimerFires
    \/ HostServes
    \/ PassResumes

SemicolonSpec == SemicolonInit /\ [][SemicolonNext]_vars

\* The semicolon edits this step sends.
NewSemicolonEdits ==
    {e \in {edits'[i] : i \in 1..Len(edits')} \ {edits[i] : i \in 1..Len(edits)} :
        e.pass = "semicolon" /\ e.result = "pending"}

\* The last non-blank character of line, "" when the line is blank.
LastNonBlank(line) == IF TrimEnd(line) = << >> THEN "" ELSE TrimEnd(line)[Len(TrimEnd(line))]

\* C11 as claimed: no semicolon is decided for a line whose last non-blank
\* character is ";", "{", "}", ":" or "[".
C11_NoSemicolonAfterTerminator ==
    [][\A e \in NewSemicolonEdits :
         LastNonBlank(text[e.doc][e.line + 1]) \notin {";", "{", "}", ":", "["}]_vars

\* C11 amended: no semicolon is decided for a line whose last non-blank
\* character is ";", "{", ":" or "[", whatever precedes it, nor for a line that
\* holds "}" alone; a line that ends in "}" after other text falls to the other
\* rules.
C11_NoSemicolonAfterOpener ==
    [][\A e \in NewSemicolonEdits :
         /\ LastNonBlank(text[e.doc][e.line + 1]) \notin {";", "{", ":", "["}
         /\ Trim(text[e.doc][e.line + 1]) # << "}" >>]_vars

\* The cursor has left a first line that ends in "{" after other text, with the
\* flag clear, and no semicolon edit was sent.
C11_Witness ==
    /\ lastStep.kind = "selection"
    /\ ~lastStep.flag
    /\ events = MaxSemicolonEvents - 1
    /\ lastCursorLine = 1
    /\ activeEditor \in Docs
    /\ LastNonBlank(text[activeEditor][1]) = "{"
    /\ Len(Trim(text[activeEditor][1])) > 1
    /\ edits = << >>

\* The index of the ")" that closes the "(" at index p of cs, 0 when none does.
MatchingParen(cs, p) ==
    LET Open(q) == Cardinality({k \in p..q : cs[k] = "("})
        Close(q) == Cardinality({k \in p..q : cs[k] = ")"})
        S == {q \in p..Len(cs) : Open(q) = Close(q)}
    IN  IF S = {} THEN 0 ELSE CHOOSE q \in S : \A r \in S : q <= r

\* A control-structure header with nothing after the closing parenthesis of its
\* condition.
IsControlHeader(trimmed) ==
    \E kw \in ControlKeywords :
        /\ MatchAt(trimmed, 1, kw)
        /\ LET p == SkipSpace(trimmed, Len(kw) + 1)
           IN  /\ p <= Len(trimmed)
               /\ trimmed[p] = "("
               /\ MatchingParen(trimmed, p) = Len(trimmed)

\* The decision policy C12 describes.
ClaimedDecision(line) ==
    LET trimmed == Trim(line)
    IN  ~ \/ trimmed = << >>
          \/ LastNonBlank(line) \in {";", "{", ":", "["}
          \/ trimmed = << "}" >>
          \/ trimmed[1] = "#"
          \/ StartsWith(trimmed, Chars("//")) \/ StartsWith(trimmed, Chars("/*"))
          \/ StartsWith(trimmed, Chars("*")) \/ EndsWith(trimmed, Chars("*/"))
          \/ IsControlHeader(trimmed)
          \/ IsFunctionHeader(trimmed)
          \/ IsTypeDeclaration(trimmed)
          \/ IsCaseLabel(trimmed)

\* C12: when the cursor leaves a line with the flag clear, a semicolon is decided
\* exactly when the line is none of the excluded kinds of the decision policy.
C12_DecisionPolicy ==
    [][\A d \in Docs :
         (/\ lastStep'.kind = "selection"
          /\ lastStep'.doc = d
          /\ ~isProcessingChange
          /\ activeEditor = d
          /\ lastCursorLine >= 0
          /\ lastCursorLine < Len(text[d])
          /\ lastCursorLine' # lastCursorLine)
         => (NewSemicolonEdits # {} <=> ClaimedDecision(text[d][lastCursorLine + 1]))]_vars

\* C13: an applied semicolon edit appends exactly one ";" at the end of its line
\* and changes nothing else, and it is never applied to a line that already ends
\* in ";": no number of triggers adds a second one.
C13_OneSemicolon ==
    [][\A d \in Docs :
         (lastStep'.kind = "host" /\ lastStep'.pass = "semicolon" /\ lastStep'.doc = d
            /\ lastStep'.result = "true")
         => \E e \in Applied("semicolon")' :
               /\ e.line < Len(text[d])
               /\ text'[d] = [text[d] EXCEPT ![e.line + 1] = @ \o << ";" >>]
               /\ LastNonBlank(text[d][e.line + 1]) # ";"
               /\ ClaimedDecision(text[d][e.line + 1])]_vars

\* A semicolon has been appended to the first line and a later trigger for that
\* line (the Enter timer or the cursor leaving it) has run with the flag clear
\* and sent nothing.
C13_Witness ==
    /\ lastStep.kind \in {"selection", "timer"}
    /\ lastStep.pass \in {"none", "semicolon"}
    /\ ~lastStep.flag
    /\ edits = << >>
    /\ \E d \in Docs : version[d] > 1 /\ LastNonBlank(text[d][1]) = ";"
                       /\ \E l \in SemicolonLines : text[d][1] = l \o << ";" >>
                       /\ text[d][1] \notin SemicolonLines

(***************************************************************************)
(* Diagnostics on their own: an open document whose lines are drawn from   *)
(* the constructs the four checks look for; the user saves it and types at *)
(* the end of one of its first two lines                                   *)
(***************************************************************************)

MaxDiagnosticEvents == 3

\* The lines after an fopen call that the fopen check can look at, and one more.
MaxFollowingLines == 5

\* Lines with the constructs of the unsafe-function, assignment and allocation
\* checks.
DiagnosticLinePool ==
    { Chars("strcpy(dst, src);"), Chars("gets(buf); // strcpy(a, b)"),
      Chars("// gets(buf)"), Chars("x = 1; // gets(buf)"),
      Chars("/* copy */ strcpy(dst, src);"), Chars("gets_ok = gets(buf);"),
      Chars("if (x = 5) { }"), Chars("if (x == 5 && y != 2) { }"),
      Chars("if (x <= 5) { }"), Chars("if (isValid(p) && n = 0) { }"),
      Chars("p = malloc(10);"), Chars("int x = 0;"),
      Chars("fgets(buf, 10, stdin);"), Chars("strncpy(dst, src, 3);") }

\* What can follow an fopen call within a few lines.
FollowingChecks ==
    { Chars("if (!f) return 1;"), Chars("ok = f != NULL;"), Chars("perror(name);"),
      Chars("char *buf = NULL;") }

\* An fopen call followed by n lines, the k-th of them check (none when k = 0).
FopenText(n, k, check) ==
    << Chars("f = fopen(name, mode);") >>
        \o [i \in 1..n |-> IF i = k THEN check ELSE Chars("n++;")]

DiagnosticTexts ==
    Buffers(DiagnosticLinePool, 1)
        \cup {FopenText(n, k, c) : n \in 0..MaxFollowingLines, k \in 0..MaxFollowingLines,
                                   c \in FollowingChecks}

\* What the user types, and the 0-based line at whose end it is typed.
DiagnosticTyping ==
    { [line |-> 0, snippet |-> << Chars(" gets(buf);") >>],
      [line |-> 1, snippet |-> << Chars(" ok = f != NULL;") >>] }

DiagnosticInit ==
    /\ text \in OneDocument(DiagnosticTexts)
    /\ events = MaxDiagnosticEvents
    /\ \E d \in Docs : Editing(d)

DiagnosticNext ==
    \/ \E d \in Docs : SaveDocument(d)
    \/ \E d \in Docs : \E t \in DiagnosticTyping : UserChange(d, t.line, t.snippet)
    \/ \E t \in DOMAIN timers : TimerFires(t)
    \/ PrototypeTimerFires
    \/ HostServes
    \/ PassResumes

DiagnosticSpec == DiagnosticInit /\ [][DiagnosticNext]_vars

\* The published diagnostics of d on 0-based line n with the given message.
Published(d, n, message) ==
    {k \in 1..Len(diagnostics[d]) :
        diagnostics[d][k].line = n /\ diagnostics[d][k].message = message}

\* C14: after every save of a document its published diagnostic set is the scan
\* of the text at that save: the set is replaced, nothing of an earlier scan
\* survives and nothing is merged.
C14_SetReplacedOnSave ==
    \A d \in Docs :
        (lastStep.kind = "save" /\ lastStep.doc = d)
        => diagnostics[d] = ScanFrom(text[d], 0)

\* The document has been saved again after the header pass of an earlier save
\* put an include above a strcpy call: the only finding is the Warning on the
\* call's present line, the one the earlier save published for line 0 is gone.
C14_Witness ==
    \E d \in Docs :
        /\ lastStep.kind = "save"
        /\ lastStep.doc = d
        /\ text[d][1] = Chars("#include <string.h>")
        /\ Len(diagnostics[d]) = 1
        /\ diagnostics[d][1].line > 0
        /\ diagnostics[d][1].message = UnsafeMessage("strcpy")

\* The indexes of line where "unsafe(" occurs and is not after a "//" marker.
UncommentedCalls(line, unsafeFunc) ==
    {i \in 1..Len(line) :
        /\ MatchAt(line, i, Chars(unsafeFunc \o "("))
        /\ IndexOf(line, Chars("//")) = 0 \/ i < IndexOf(line, Chars("//"))}

\* C15: for every pair of UNSAFE_FUNCTIONS, a saved line with "unsafe(" not
\* after a "//" marker has exactly one Warning naming the safe alternative, on
\* exactly the columns of the function name of such an occurrence; a line whose
\* only occurrences are after "//" has none.
C15_UnsafeWarning ==
    \A d \in Docs :
        (lastStep.kind = "save" /\ lastStep.doc = d)
        => \A n \in 1..Len(text[d]) : \A unsafeFunc \in DOMAIN UNSAFE_FUNCTIONS :
              LET W == Published(d, n - 1, UnsafeMessage(unsafeFunc))
                  O == UncommentedCalls(text[d][n], unsafeFunc)
              IN  IF O = {} THEN W = {}
                  ELSE /\ Cardinality(W) = 1
                       /\ \A k \in W : \E i \in O :
                             /\ diagnostics[d][k].severity = "Warning"
                             /\ diagnostics[d][k].start = i - 1
                             /\ diagnostics[d][k].end = i - 1 + Len(Chars(unsafeFunc))

\* The indexes of the "if" of an "if (...)" of cl whose parenthesized contents
\* hold a "=" that is not part of "==", "!=", "<=" or ">=".
AssigningConditionals(cl) ==
    {i \in 1..Len(cl) :
        /\ MatchAt(cl, i, Chars("if"))
        /\ LET p == SkipSpace(cl, i + 2)
           IN  /\ p <= Len(cl)
               /\ cl[p] = "("
               /\ MatchingParen(cl, p) # 0
               /\ \E k \in (p + 1)..(MatchingParen(cl, p) - 1) :
                     /\ cl[k] = "="
                     /\ cl[k - 1] \notin {"=", "!", "<", ">"}
                     /\ cl[k + 1] # "="}

AssignmentMessage == "Possible assignment instead of comparison in conditional statement"

\* C16: a saved line, without its "//" tail, has exactly one
\* assignment-in-conditional Warning, from the "if" to the end of the line,
\* exactly when it has an "if (...)" whose contents hold a bare "="; a
\* condition with comparison operators only has none.
C16_AssignmentWarning ==
    \A d \in Docs :
        (lastStep.kind = "save" /\ lastStep.doc = d)
        => \A n \in 1..Len(text[d]) :
              LET cl == StripComment(text[d][n])
                  W == Published(d, n - 1, AssignmentMessage)
              IN  IF AssigningConditionals(cl) = {} THEN W = {}
                  ELSE /\ Cardinality(W) = 1
                       /\ \A k \in W : \E i \in AssigningConditionals(cl) :
                             /\ diagnostics[d][k].severity = "Warning"
                             /\ diagnostics[d][k].start = i - 1
                             /\ diagnostics[d][k].end = Len(cl)

\* t holds NULL compared with "==" or "!=", on either side.
NullComparison(t) ==
    \E i \in 1..Len(t) : \E op \in {Chars("=="), Chars("!=")} :
        \/ MatchAt(t, i, op) /\ MatchAt(t, SkipSpace(t, i + 2), Chars("NULL"))
        \/ MatchAt(t, i, Chars("NULL")) /\ MatchAt(t, SkipSpace(t, i + 4), op)

\* t holds an "if (".
IfParen(t) ==
    \E i \in 1..Len(t) : MatchAt(t, i, Chars("if")) /\ MatchAt(t, SkipSpace(t, i + 2), Chars("("))

\* t holds a call of perror.
PerrorCall(t) ==
    \E i \in 1..Len(t) :
        MatchAt(t, i, Chars("perror")) /\ MatchAt(t, SkipSpace(t, i + 6), Chars("("))

\* The lines i+1 .. min(i+4, last line) after 1-based line n, joined.
FollowingBlock(lines, n) ==
    Join(SubSeq(lines, n + 1, IF n + 4 < Len(lines) THEN n + 4 ELSE Len(lines)))

FopenMessage == "Consider checking if fopen() returned NULL before using the file pointer"

\* C17: a saved line with "fopen(" has exactly one Information diagnostic
\* exactly when the up to four lines after it hold no NULL comparison, no
\* "if (" and no perror call.
C17_FopenHint ==
    \A d \in Docs :
        (lastStep.kind = "save" /\ lastStep.doc = d)
        => \A n \in 1..Len(text[d]) :
              IndexOf(text[d][n], Chars("fopen(")) # 0
              => LET block == FollowingBlock(text[d], n)
                     W == {k \in Published(d, n - 1, FopenMessage) :
                             diagnostics[d][k].severity = "Information"}
                 IN  Cardinality(W) = IF \/ NullComparison(block)
                                         \/ IfParen(block)
                                         \/ PerrorCall(block)
                                      THEN 0 ELSE 1

(***************************************************************************)
(* Reference search on its own: the user searches from the sidebar view,   *)
(* from the panel and through the search command                           *)
(***************************************************************************)

\* What the user enters as a search term.
SearchInputs ==
    { "", " ", "   ", "printf", "PRINTF", " printf ", "stdio", "stdio.h", "STDIO",
      "string", "math.h", ".h", "str", "memory", "file", "gets", "a string",
      "Converts", "to", "zzz", "mem", "time", "STR" }

\* Everything but the search is left as it is.
SearchOnly ==
    UNCHANGED << text, version, opened, activeEditor, isProcessingChange,
                 prototypeCheckTimer, lastCursorLine, timers, edits, events,
                 diagnostics, activated >>

\* The user enters input in the sidebar view and starts the search: the view's
\* performSearch, then _handleWebviewMessage for the message it posts.
SidebarSearch(input) ==
    /\ activated
    /\ LET m == performSearch(input)
       IN  search' = IF m.posted
                     THEN Searched("sidebar", input, "searchResults",
                                   handleWebviewMessage(m.query), search.panel)
                     ELSE Searched("sidebar", input, "prompt", << >>, search.panel)
    /\ lastStep' = Step("search", "none", "none", "none")
    /\ SearchOnly

\* The same in the reference panel: its performSearch, then handleSearchMessage.
PanelSearch(input) ==
    /\ activated
    /\ search.panel
    /\ LET m == performSearch(input)
           r == handleSearchMessage(m.query, search.panel)
       IN  search' = IF ~m.posted
                     THEN Searched("panel", input, "prompt", << >>, search.panel)
                     ELSE IF r = << >>
                     THEN Searched("panel", input, "ignored", << >>, search.panel)
                     ELSE Searched("panel", input, "searchResults", r[1], search.panel)
    /\ lastStep' = Step("search", "none", "none", "none")
    /\ SearchOnly

\* The command c-helper.searchReference with input entered in the input box:
\* searchReference runs for a non-empty input and opens the panel when it has
\* results.
CommandSearch(input) ==
    /\ activated
    /\ LET results == IF input = "" THEN << >> ELSE searchReference(Chars(input))
       IN  search' = IF input = ""
                     THEN Searched("command", input, "ignored", << >>, search.panel)
                     ELSE IF Len(results) > 0
                     THEN Searched("command", input, "searchResults", results, TRUE)
                     ELSE Searched("command", input, "information", << >>, search.panel)
    /\ lastStep' = Step("search", "none", "none", "none")
    /\ SearchOnly

\* The user closes the reference panel: its onDidDispose listener.
PanelDisposed ==
    /\ search.panel
    /\ search' = [search EXCEPT !.panel = FALSE]
    /\ lastStep' = Step("search", "none", "none", "none")
    /\ SearchOnly

SearchInit ==
    /\ text \in OneDocument({<< << >> >>})
    /\ events = 0
    /\ Activated

SearchNext ==
    \/ \E input \in SearchInputs : SidebarSearch(input)
    \/ \E input \in SearchInputs : PanelSearch(input)
    \/ \E input \in SearchInputs : CommandSearch(input)
    \/ PanelDisposed

SearchSpec == SearchInit /\ [][SearchNext]_vars

\* The term a search looks for: the input in lower case, trimmed except when
\* it comes from the search command.
Term(from, input) ==
    IF from = "command" THEN toLowerCase(Chars(input))
    ELSE Trim(toLowerCase(Chars(input)))

\* The catalog entries (by index) whose name, header or, for the panel,
\* description holds term.
Matching(from, term) ==
    {i \in 1..Len(LIBRARY_DATABASE) :
        \/ Includes(LowerCased[i].lowerName, term)
        \/ Includes(LowerCased[i].lowerHeader, term)
        \/ from = "panel" /\ Includes(LowerCased[i].lowerDescription, term)}

\* The catalog entries whose name holds term, or whose header does unless the
\* search comes from the search command, or whose description does in the panel.
MatchingAt(from, term) ==
    {i \in Matching(from, term) :
        from = "command" => Includes(LowerCased[i].lowerName, term)}

\* results lists exactly the entries of S, in catalog order.
ListsExactly(results, S) ==
    /\ Len(results) = Cardinality(S)
    /\ \A k \in 1..Len(results) :
          \E i \in S : /\ results[k] = LIBRARY_DATABASE[i].name
                       /\ Cardinality({j \in S : j < i}) = k - 1

\* C18: a search that answers with results returns, in catalog order, exactly
\* the entries matching the term in name, header or (panel) description;
\* "stdio" returns every entry of stdio.h and "printf" the printf entry alone.
C18_SearchReturnsMatches ==
    search.outcome = "searchResults"
    => LET term == Term(search.from, search.input)
       IN  /\ ListsExactly(search.results, Matching(search.from, term))
           /\ term = Chars("stdio")
              => \A i \in 1..Len(LIBRARY_DATABASE) :
                    LIBRARY_DATABASE[i].header = "stdio.h"
                    => \E k \in 1..Len(search.results) :
                          search.results[k] = LIBRARY_DATABASE[i].name
           /\ term = Chars("printf") => search.results = << "printf" >>

\* C18, amended: a search that answers with results returns, in catalog order,
\* exactly the entries whose name holds the term, or whose header does (sidebar
\* and panel), or whose description does (panel); "stdio" from the sidebar or
\* the panel returns every entry of stdio.h, and "printf" returns printf and the
\* other entries whose name holds it, fprintf and sprintf.
C18_SearchReturnsSubstringMatches ==
    search.outcome = "searchResults"
    => LET term == Term(search.from, search.input)
       IN  /\ ListsExactly(search.results, MatchingAt(search.from, term))
           /\ (term = Chars("stdio") /\ search.from # "command")
              => \A i \in 1..Len(LIBRARY_DATABASE) :
                    LIBRARY_DATABASE[i].header = "stdio.h"
                    => \E k \in 1..Len(search.results) :
                          search.results[k] = LIBRARY_DATABASE[i].name
           /\ term = Chars("printf")
              => search.results = << "printf", "fprintf", "sprintf" >>

\* The sidebar has answered a search for "stdio" in capitals with the entries
\* of stdio.h.
C18_Witness ==
    /\ search.from = "sidebar"
    /\ search.input = "STDIO"
    /\ search.outcome = "searchResults"
    /\ Len(search.results) > 1
    /\ search.results[1] = "printf"

MaxLifecycleEvents == 3

\* The files the open document can hold.
LifecycleTexts ==
    { Lines(<< "strcpy(dst, src);", "" >>),
      Lines(<< "#include <string.h>", "int main() {", "strcpy(dst, src)", "}" >>) }

\* deactivate(): the diagnostics are cleared and their collection disposed, the
\* prototype timer is cancelled, the reference panel is disposed; the host then
\* disposes the listeners of context.subscriptions.
Deactivate ==
    /\ activated
    /\ diagnostics' = [d \in Docs |-> << >>]
    /\ prototypeCheckTimer' = "none"
    /\ search' = [search EXCEPT !.panel = FALSE]
    /\ activated' = FALSE
    /\ lastStep' = Step("deactivate", "none", "none", "none")
    /\ UNCHANGED << text, version, opened, activeEditor, isProcessingChange,
                    lastCursorLine, timers, edits, events >>

LifecycleInit ==
    /\ text \in OneDocument(LifecycleTexts)
    /\ events = MaxLifecycleEvents
    /\ \E d \in Docs : Editing(d)

LifecycleNext ==
    \/ \E d \in Docs : SaveDocument(d)
    \/ \E d \in Docs : \E n \in {0, 2} : UserChange(d, n, << << >>, << >> >>)
    \/ \E t \in DOMAIN timers : TimerFires(t)
    \/ PrototypeTimerFires
    \/ HostServes
    \/ PassResumes
    \/ Deactivate

LifecycleSpec == LifecycleInit /\ [][LifecycleNext]_vars

\* C20: after deactivate the process-wide state is cleared whatever was in
\* progress: no diagnostics are published, no prototype timer is pending and
\* the re-entrancy flag is not set.
C20_ClearedAfterDeactivate ==
    lastStep.kind = "deactivate"
    => /\ \A d \in Docs : diagnostics[d] = << >>
       /\ prototypeCheckTimer = "none"
       /\ ~isProcessingChange

(***************************************************************************)
(* Typing a call: the user types at the end of the line "y = sqrt" of an   *)
(* open document, a character at a time or a whole call at once, possibly  *)
(* with a line break after it                                              *)
(***************************************************************************)

MaxTypingEvents == 3

\* The file of the open document.
TypingTexts ==
    { Lines(<< "#include <stdio.h>", "int main() {", "y = sqrt", "}" >>) }

\* The 0-based line the user types on.
TypedLine == 2

\* What one change event inserts: an opening parenthesis typed alone, the
\* arguments typed at once, a further call followed by a line break.
TypingSnippets ==
    { << Chars("(") >>, << Chars("(x)") >>, << Chars(" + pow(x)"), << >> >> }

TypingInit ==
    /\ text \in OneDocument(TypingTexts)
    /\ events = MaxTypingEvents
    /\ \E d \in Docs : Editing(d)

TypingNext ==
    \/ \E d \in Docs : \E s \in TypingSnippets : UserChange(d, TypedLine, s)
    \/ \E d \in Docs : SelectionChanged(d, TypedLine)
    \/ \E t \in DOMAIN timers : TimerFires(t)
    \/ PrototypeTimerFires
    \/ HostServes
    \/ PassResumes

TypingSpec == TypingInit /\ [][TypingNext]_vars

\* The header edits this step sends for document d.
NewHeaderEdits(d) ==
    {e \in {edits'[i] : i \in 1..Len(edits')} \ {edits[i] : i \in 1..Len(edits)} :
        e.pass = "header" /\ e.doc = d /\ e.result = "pending"}

\* C21: an accepted change event (flag clear, active document) that leaves the
\* buffer with a call of a catalog function whose header is not included runs
\* the header pass in response: the pass sends its edit in the same step,
\* whether the call was typed a character at a time or inserted at once.
C21_HeaderPassOnChange ==
    [][\A d \in Docs :
         (/\ lastStep'.kind = "change"
          /\ lastStep'.doc = d
          /\ ~isProcessingChange
          /\ activeEditor = d
          /\ ClaimedHeaders(text'[d]) # {})
         => NewHeaderEdits(d) # {}]_vars

\* The header or prototype insertion this step applies to document d.
InsertionApplied(d) ==
    /\ lastStep'.kind = "host"
    /\ lastStep'.doc = d
    /\ lastStep'.pass \in {"header", "prototype"}
    /\ lastStep'.result = "true"

\* The 0-based line numbers stored for a later semicolon check of document d:
\* the lineNum of each pending 10 ms timer, and lastCursorLine.
StoredLines(d) ==
    {t.line : t \in {u \in DOMAIN timers : u.kind = "semicolon" /\ u.doc = d}}
        \cup {n \in {lastCursorLine} : n >= 0 /\ activeEditor = d}

\* C27: a stored line number denotes the same text line after a header or
\* prototype insertion as before it, so that the semicolon check that reads
\* it later is applied to the line that triggered it.
C27_StoredLineDenotesTriggeringLine ==
    [][\A d \in Docs : \A n \in StoredLines(d) :
         (InsertionApplied(d) /\ n < Len(text[d]))
         => text'[d][n + 1] = text[d][n + 1]]_vars

(***************************************************************************)
(* Two editors: documents A and B are both open, A in the active editor;   *)
(* the user types, moves the cursor and switches between the editors       *)
(***************************************************************************)

MaxEditorsEvents == 3

\* The files of the two documents: A defines a function after main.
EditorsTexts ==
    [A |-> Lines(<< "#include <stdio.h>", "int main() {", "x = 1", "}",
                    "int add(int a) {", "}" >>),
     B |-> Lines(<< "#include <stdio.h>", "int main() {", "return 0", "}" >>)]

\* The 0-based line the user types a digit on, and the lines the cursor is
\* moved to.
EditorsTypedLine == 2

EditorsCursorLines == {0, 2}

EditorsInit ==
    /\ text = EditorsTexts
    /\ events = MaxEditorsEvents
    /\ Editing("A")

EditorsNext ==
    \/ \E d \in Docs : UserChange(d, EditorsTypedLine, << Chars("1") >>)
    \/ \E d \in Docs : \E n \in EditorsCursorLines : SelectionChanged(d, n)
    \/ \E e \in Docs : ActiveEditorChanged(e)
    \/ \E t \in DOMAIN timers : TimerFires(t)
    \/ PrototypeTimerFires
    \/ HostServes
    \/ PassResumes

EditorsSpec == EditorsInit /\ [][EditorsNext]_vars

RECURSIVE CountTimers(_, _)
\* The number of pending timers among ts whose callback is the prototype pass.
CountTimers(ts, keys) ==
    IF keys = {} THEN 0
    ELSE LET t == CHOOSE u \in keys : TRUE
         IN  (IF t.kind = "prototypeCheck" THEN ts[t] ELSE 0) + CountTimers(ts, keys \ {t})

\* The number of prototype timers pending for handle pt and timers ts.
PendingPrototypeTimers(pt, ts) ==
    (IF pt = "none" THEN 0 ELSE 1) + CountTimers(ts, DOMAIN ts)

\* This step is a change event of document d that the handler accepts.
AcceptedChange(d) ==
    /\ lastStep'.kind \in {"change", "host"}
    /\ lastStep'.doc = d
    /\ text'[d] # text[d]
    /\ ~isProcessingChange

\* C23: at most one prototype timer is pending at any time; every accepted
\* change event leaves exactly the timer it scheduled pending, whatever was
\* pending before, and once that timer has fired none is pending, so that a
\* burst of accepted changes is followed by at most one prototype pass.
C23_OnePrototypeTimer ==
    [][/\ PendingPrototypeTimers(prototypeCheckTimer', timers') <= 1
       /\ \A d \in Docs :
            AcceptedChange(d)
            => /\ prototypeCheckTimer' = d
               /\ PendingPrototypeTimers(prototypeCheckTimer', timers') = 1
       /\ (lastStep'.kind = "timer" /\ lastStep'.pass = "prototypeCheck")
          => PendingPrototypeTimers(prototypeCheckTimer', timers') = 0]_vars

\* C23 witness: two changes of A, both accepted, the second while the timer of
\* the first was pending (no prototype pass has run between them: A still
\* lacks the prototype of add and no edit was sent); one timer is pending.
C23_Witness ==
    /\ lastStep.kind = "change"
    /\ ~lastStep.flag
    /\ events = MaxEditorsEvents - 2
    /\ text["A"][EditorsTypedLine + 1] = Chars("x = 111")
    /\ Len(text["A"]) = Len(EditorsTexts["A"])
    /\ edits = << >>
    /\ ~isProcessingChange
    /\ prototypeCheckTimer = "A"

\* C24: an accepted change of document B leaves a prototype pass pending for
\* another document A in place: only a change of A replaces A's timer.
C24_OtherDocumentKeepsTimer ==
    [][\A a \in Docs : \A b \in Docs \ {a} :
         (AcceptedChange(b) /\ prototypeCheckTimer = a)
         => prototypeCheckTimer' = a]_vars

\* C28: the first selection event in document d after the active editor has
\* switched to d from another document sends no semicolon edit for the line
\* of d whose number lastCursorLine remembers from the other document.
C28_CursorLineOfOtherDocument ==
    [][\A d \in Docs :
         (/\ lastStep.kind = "switch"
          /\ lastStep.doc = d
          /\ lastStep'.kind = "selection"
          /\ lastStep'.doc = d)
         => \A e \in NewSemicolonEdits : ~(e.doc = d /\ e.line = lastCursorLine)]_vars

\* The two editors under the scheduling the liveness claims assume: every
\* request is answered (none fails), every pass resumes, every timer fires.
FairEditorsSpec == EditorsSpec /\ Fairness

\* The user has stopped, and the last accepted change has left a prototype
\* timer pending for the active document, which defines a function after main
\* without a prototype.
PrototypePassDue ==
    /\ events = 0
    /\ activeEditor \in Docs
    /\ prototypeCheckTimer = activeEditor
    /\ MissingPrototypes(text[activeEditor]) # << >>

\* The active document has a prototype for every function defined after main.
PrototypesInserted ==
    /\ activeEditor \in Docs
    /\ MissingPrototypes(text[activeEditor]) = << >>

\* C22: once the user has stopped with a prototype timer pending for the
\* active document, which lacks a prototype, the prototype pass eventually
\* runs and inserts it, also when the flag is set as the timer fires.
C22_DebouncedPassEventuallyRuns == PrototypePassDue ~> PrototypesInserted

(***************************************************************************)
(* Prototype synthesis: the lines the pass considers                       *)
(***************************************************************************)

\* The 1-based lines of the main definitions after the last include line.
AnchorLines(lines) ==
    {n \in 1..Len(lines) :
        /\ IsMainLine(lines[n])
        /\ \E k \in 1..(n - 1) : IsIncludeLine(lines[k])
        /\ \A k \in (n + 1)..Len(lines) : ~IsIncludeLine(lines[k])}

\* The 1-based lines on which a function of the given name is defined.
DefinitionLines(lines, name) ==
    {n \in 1..Len(lines) :
        FunctionMatch(lines[n]) # << >> /\ FunctionMatch(lines[n])[1].name = name}

\* C25: the prototype pass sends an edit only for a buffer with an include
\* line and a main definition after the last include; every prototype of the
\* edit is that of a function not named main that is defined on a line after
\* such a main definition (so after the first of them), and no prototype is
\* synthesized from a definition on an earlier line.
C25_OnlyDefinitionsAfterMain ==
    \A e \in Sent("prototype") :
        lastStep.kind = "pass"
        => LET lines == text[e.doc]
           IN  /\ AnchorLines(lines) # {}
               /\ \A k \in 1..Len(Prototypes(e)) :
                     /\ PrototypeName(Prototypes(e)[k]) # Chars("main")
                     /\ \E n \in DefinitionLines(lines, PrototypeName(Prototypes(e)[k])) :
                           /\ \E a \in AnchorLines(lines) : a < n
                           /\ FunctionMatch(lines[n])[1].prototype = Prototypes(e)[k]

\* A pass sent an edit for a buffer in which a function is defined between
\* the last include and main: the edit has no prototype for it.
C25_Witness ==
    \E e \in Sent("prototype") :
        LET lines == text[e.doc]
        IN  /\ lastStep.kind = "pass"
            /\ \E n \in 1..Len(lines) :
                  /\ \A a \in AnchorLines(lines) : n < a
                  /\ \E k \in 1..(n - 1) : IsIncludeLine(lines[k])
                  /\ FunctionMatch(lines[n]) # << >>
                  /\ \A k \in 1..Len(Prototypes(e)) :
                        PrototypeName(Prototypes(e)[k]) # FunctionMatch(lines[n])[1].name

(***************************************************************************)
(* Overlapping header passes: a document is opened, saved, and changed in  *)
(* several places by one change event, so that header passes start from    *)
(* the same snapshot of the buffer                                         *)
(***************************************************************************)

MaxOverlapEvents == 3

\* The host's steps are followed while the buffer has fewer lines than this
\* (an inserted include line whose own text holds a call starts a further header
\* pass when its change event is accepted, without end).
MaxOverlapLines == 7

\* The files of the document: each includes stdio.h only; the first calls
\* strlen, the second a function of the program named toString.
OverlapTexts ==
    { Lines(<< "#include <stdio.h>", "int main() {", "n = strlen(s)", "m = 1", "}" >>),
      Lines(<< "#include <stdio.h>", "int main() {", "s = toString(x)", "m = 1", "}" >>) }

\* The 0-based lines of the two cursors of a multi-cursor edit, and the text
\* typed at the end of each.
CursorRows == << 2, 3 >>

TypedCall == << Chars(" + abs(k)") >>

RECURSIVE InsertAtEnds(_, _, _)
\* The buffer after snippet is inserted at the end of each of the rows.
InsertAtEnds(lines, rows, snippet) ==
    IF rows = << >> THEN lines
    ELSE InsertAtEnds(InsertText(lines, Head(rows), Len(lines[Head(rows) + 1]), snippet),
                      Tail(rows), snippet)

\* The user types snippet at several cursors at once: the host changes the
\* text, then onDidChangeTextDocument runs once with one content change per
\* cursor.
MultiCursorChange(d, rows, snippet) ==
    /\ activated
    /\ opened[d]
    /\ activeEditor = d
    /\ events > 0
    /\ \A k \in 1..Len(rows) : rows[k] < Len(text[d])
    /\ LET lines == InsertAtEnds(text[d], rows, snippet)
       IN  /\ text' = [text EXCEPT ![d] = lines]
           /\ version' = [version EXCEPT ![d] = @ + 1]
           /\ Becomes(onDidChangeTextDocument(
                        d, [k \in 1..Len(rows) |-> [text |-> Join(snippet), line |-> rows[k]]],
                        lines, version[d] + 1, activeEditor, Now))
    /\ events' = events - 1
    /\ lastStep' = Step("change", d, "none", "none")
    /\ UNCHANGED << opened, activeEditor, lastCursorLine >>
    /\ UNCHANGED << diagnostics, activated, search >>

OverlapInit ==
    /\ text \in OneDocument(OverlapTexts)
    /\ events = MaxOverlapEvents
    /\ Activated

OverlapNext ==
    \/ \E d \in Docs : OpenDocument(d)
    \/ \E d \in Docs : SaveDocument(d)
    \/ \E d \in Docs : MultiCursorChange(d, CursorRows, TypedCall)
    \/ \E t \in DOMAIN timers : TimerFires(t)
    \/ PrototypeTimerFires
    \/ (\A d \in Docs : Len(text[d]) < MaxOverlapLines) /\ HostServes
    \/ PassResumes

OverlapSpec == OverlapInit /\ [][OverlapNext]_vars

\* The include lines of the files as the user wrote them.
UserIncludes == {Chars("#include <stdio.h>")}

\* C26: the buffer never holds two include lines for one header that the
\* header pass inserted both, whatever the order of open, change and save
\* events and of the passes they start.
C26_NoHeaderInsertedTwice ==
    \A d \in Docs : \A i, j \in 1..Len(text[d]) :
        (i < j /\ IsIncludeLine(text[d][i]) /\ text[d][i] \notin UserIncludes)
        => text[d][j] # text[d][i]

(***************************************************************************)
(* Unsafe-function detection: calls of the safe alternatives                *)
(***************************************************************************)

\* The indexes of line where a call of name starts as a whole identifier.
WholeCalls(line, name) ==
    {i \in 1..Len(line) :
        /\ MatchAt(line, i, Chars(name \o "("))
        /\ i = 1 \/ line[i - 1] \notin WordChars}

\* C29: a saved line that calls a safe alternative (fgets, strncpy, strncat,
\* snprintf) and calls no unsafe function, names being whole identifiers, has
\* no unsafe-function Warning.
C29_SafeAlternativeNotWarned ==
    \A d \in Docs :
        (lastStep.kind = "save" /\ lastStep.doc = d)
        => \A n \in 1..Len(text[d]) :
              (/\ \E unsafeFunc \in DOMAIN UNSAFE_FUNCTIONS :
                     WholeCalls(text[d][n], UNSAFE_FUNCTIONS[unsafeFunc]) # {}
               /\ \A unsafeFunc \in DOMAIN UNSAFE_FUNCTIONS :
                     WholeCalls(text[d][n], unsafeFunc) = {})
              => \A unsafeFunc \in DOMAIN UNSAFE_FUNCTIONS :
                    Published(d, n - 1, UnsafeMessage(unsafeFunc)) = {}

(***************************************************************************)
(* A new file: an empty .c file is created in the workspace; the editor    *)
(* may open it, and the file-created handler opens it itself               *)
(***************************************************************************)

MaxTemplateEvents == 2

\* The new file: one empty line.
TemplateTexts == { << << >> >> }

\* onDidCreateFiles for the .c file of document d, which is not open and for
\* which no setup is under way: setupNewCFile is scheduled.
CreateFile(d) ==
    /\ activated
    /\ text[d] # NoDocument
    /\ ~opened[d]
    /\ Timer("createdTemplate", d, -1) \notin DOMAIN timers
    /\ \A i \in 1..Len(edits) : edits[i].doc # d
    /\ events > 0
    /\ timers' = AddTimer(timers, Timer("createdTemplate", d, -1))
    /\ events' = events - 1
    /\ lastStep' = Step("create", d, "none", "none")
    /\ UNCHANGED << text, version, opened, activeEditor, isProcessingChange,
                    prototypeCheckTimer, lastCursorLine, edits >>
    /\ UNCHANGED << diagnostics, activated, search >>

TemplateInit ==
    /\ text \in OneDocument(TemplateTexts)
    /\ events = MaxTemplateEvents
    /\ Activated

TemplateNext ==
    \/ \E d \in Docs : CreateFile(d)
    \/ \E d \in Docs : OpenDocument(d)
    \/ \E t \in DOMAIN timers : TimerFires(t)
    \/ PrototypeTimerFires
    \/ HostServes
    \/ PassResumes

TemplateSpec == TemplateInit /\ [][TemplateNext]_vars

\* The 1-based lines of lines that hold the template's main definition.
TemplateMains(lines) == {n \in 1..Len(lines) : lines[n] = Chars("int main() {")}

\* C30: a newly created empty file receives the main-function template at
\* most once: its buffer never holds the template's main definition twice.
C30_TemplateAtMostOnce ==
    \A d \in Docs : Cardinality(TemplateMains(text[d])) <= 1

====
